---- MODULE Spec2Model ----
(***************************************************************************)
(* The reminder scheduling engine of discord-reminder (src/index.js):      *)
(* the registry of live node-schedule jobs, the storage channel holding    *)
(* one JSON message per reminder, and the asynchronous handlers /rme,      *)
(* /delrme, the snooze_ and cancel_ buttons, the job callback and the      *)
(* 'ready' reconciliation.                                                 *)
(*                                                                         *)
(* Time is counted in units of 30 minutes since 1970-01-01T00:00Z: every   *)
(* duration the program uses (30 min, 2 h, 1 day, 1 hour, the +05:30       *)
(* offset of Asia/Kolkata) is a whole number of units.  A handler is a     *)
(* sequence of atomic steps, one per stretch of code between two awaits;   *)
(* the steps of different handlers interleave freely.                      *)
(***************************************************************************)
EXTENDS Integers, Sequences, FiniteSets, TLC

VARIABLES
    now,            \* the wall clock (Date.now()), in units
    hostOffset,     \* UTC offset of the host's local zone, in units
    up,             \* TRUE while the process runs (after 'ready')
    restarts,       \* number of process restarts so far
    store,          \* the storage channel: messages in posting order
    nextMid,        \* next message id the storage channel hands out
    msClock,        \* Date.now(): the millisecond reading, counted
    sameMs,         \* TRUE right after a /rme head read the clock
    timers,         \* node-schedule: the pending, uncancelled jobs
    scheduledJobs,  \* the Map scheduledJobs: reminder id -> job
    tasks,          \* the handlers in flight, one per slot
    pending,        \* reconcile's store requests that nobody awaits
    delivered,      \* history: <<id, fire time>> -> notifications sent
    cancelled,      \* history: ids whose cancel completed
    presses,        \* number of button presses and /delrme commands so far
    reply,          \* what the step just taken answered, if anything
    bound           \* the bounds this behaviour is explored under

vars == <<now, hostOffset, up, restarts, store, nextMid, msClock, sameMs,
          timers,
          scheduledJobs, tasks, pending, delivered, cancelled, presses, reply,
          bound>>

----------------------------------------------------------------------------
(* Bounds of the model. *)

(* Spec: one reminder, the clock up to MaxTime, MaxOps button presses or   *)
(* /delrme commands, MaxRestarts restarts.                                 *)
MaxTime == 3
MaxMsgs == 1
MaxRestarts == 1
MaxOps == 2
(* SpecTwo: two reminders on a host in UTC.                                *)
TwoTime == 2
TwoMsgs == 2
TwoRestarts == 1
TwoOps == 1
(* SpecLive: the process stays up, the platform answers every call, nobody *)
(* snoozes or cancels.                                                     *)
LiveTime == 3
LiveMsgs == 2
DownDay == 19723
DownDays == 6
DownOps == 0
DownRestarts == 1
CreateSpan == 3
(* SpecFrame: two stored records of two users.                            *)
FrameTime == 1
FrameOps == 1
(* SpecWindow: a storage channel with one record more than a fetch        *)
(* returns.                                                                *)
WindowTime == 1
WindowOps == 1
WindowRestarts == 1
(* SpecParse: the days after the reference day a parsed date falls on.    *)
ParseDays == 1
TaskSlots == {1, 2}
Users == {"u1", "u2"}
Creators == {"u1"}
HostOffsets == {0, 11}
Titles == {""}
Repeats == {"none", "hourly"}

(* Program constants, in units of 30 minutes where they are durations. *)

ISTOffset == 11
FetchLimit == 100
MaxIterations == 400
GuardLimit == 7
HourUnits == 2
DayUnits == 48
SnoozeMinutes == {30, 120, 1440}
(* The snooze buttons the model presses. *)
SnoozeChoices == {30, 1440}

----------------------------------------------------------------------------
(* Luxon DateTime and ISO-8601 strings.  A DateTime is a wall-clock        *)
(* reading together with the offset of its zone; an ISO string written by  *)
(* toISO() carries exactly those two.                                      *)

Instant(dt) == dt.wall - dt.off

FromJSDate(t) == [wall |-> t + hostOffset, off |-> hostOffset]

NowIST(t) == [wall |-> t + ISTOffset, off |-> ISTOffset]

SetZoneIST(dt, keepLocalTime) ==
    IF keepLocalTime
    THEN [wall |-> dt.wall, off |-> ISTOffset]
    ELSE [wall |-> Instant(dt) + ISTOffset, off |-> ISTOffset]

ToISO(dt) == [wall |-> dt.wall, off |-> dt.off]

FromISO(iso) == SetZoneIST([wall |-> iso.wall, off |-> iso.off], FALSE)

NewDate(iso) == iso.wall - iso.off

PlusUnits(dt, n) == [wall |-> dt.wall + n, off |-> dt.off]

Weekday(dt) == (((dt.wall \div DayUnits) + 3) % 7) + 1

----------------------------------------------------------------------------
(* The registry of jobs. *)

Reg == [timers |-> timers, scheduledJobs |-> scheduledJobs]

Drop(f, k) == [x \in DOMAIN f \ {k} |-> f[x]]

Put(f, k, v) == [x \in DOMAIN f \cup {k} |-> IF x = k THEN v ELSE f[x]]

Range(f) == {f[x] : x \in DOMAIN f}

FreshJid(S) ==
    LET used == {j.jid : j \in S.timers} \cup Range(S.scheduledJobs)
    IN  CHOOSE n \in 1..(Cardinality(used) + 1) :
            n \notin used /\ \A m \in 1..(n - 1) : m \in used

(* Variant: the map entry is removed but job.cancel() is not called. *)
cancelScheduledJobKeepsJob(S, reminderId) ==
    [timers |-> S.timers, scheduledJobs |-> Drop(S.scheduledJobs, reminderId)]

cancelScheduledJob(S, reminderId) ==
    IF reminderId \in DOMAIN S.scheduledJobs
    THEN [timers |-> {j \in S.timers : j.jid # S.scheduledJobs[reminderId]},
          scheduledJobs |-> Drop(S.scheduledJobs, reminderId)]
    ELSE S

(* Variant: the job is installed without cancelling the one already       *)
(* registered under the id.                                                *)
scheduleReminderNoCancel(S, reminder, t) ==
    IF NewDate(reminder.remindAt) <= t THEN S
    ELSE LET jid == FreshJid(S)
         IN  [timers |-> S.timers \cup
                  {[jid |-> jid, at |-> NewDate(reminder.remindAt),
                    reminder |-> reminder]},
              scheduledJobs |-> Put(S.scheduledJobs, reminder.id, jid)]

(* Variant: the new job is not entered in the map. *)
scheduleReminderUnregistered(S, reminder, t) ==
    IF NewDate(reminder.remindAt) <= t
    THEN S
    ELSE LET C == cancelScheduledJob(S, reminder.id)
         IN  [timers |-> C.timers \cup
                    {[jid |-> FreshJid(C), at |-> NewDate(reminder.remindAt),
                      reminder |-> reminder]},
              scheduledJobs |-> C.scheduledJobs]

scheduleReminder(S, reminder, t) ==
    IF NewDate(reminder.remindAt) <= t
    THEN S
    ELSE LET C == cancelScheduledJob(S, reminder.id)
             jid == FreshJid(C)
         IN  [timers |-> C.timers \cup
                    {[jid |-> jid, at |-> NewDate(reminder.remindAt),
                      reminder |-> reminder]},
              scheduledJobs |-> Put(C.scheduledJobs, reminder.id, jid)]

----------------------------------------------------------------------------
(* Calendar arithmetic of Luxon's plus({months}) and plus({years}): the    *)
(* proleptic Gregorian calendar on day numbers counted from 1970-01-01.    *)

(* Days since 1970-01-01 of a civil date, and back (proleptic Gregorian).  *)
(* Each step of the computation is an operator of its own.                *)
DayOfEra(yoe, mp, d) ==
    yoe * 365 + (yoe \div 4) - (yoe \div 100) + ((153 * mp + 2) \div 5) + d - 1

DaysOfShifted(y, mp, d) ==
    (y \div 400) * 146097 + DayOfEra(y - (y \div 400) * 400, mp, d) - 719468

DaysFromCivil(y0, m, d) ==
    DaysOfShifted(IF m <= 2 THEN y0 - 1 ELSE y0, IF m > 2 THEN m - 3 ELSE m + 9, d)

YearOfEra(doe) ==
    (doe - (doe \div 1460) + (doe \div 36524) - (doe \div 146096)) \div 365

DayOfYear(doe, yoe) == doe - (365 * yoe + (yoe \div 4) - (yoe \div 100))

CivilOfMonth(era, yoe, doy, mp) ==
    [year |-> yoe + era * 400 + (IF mp < 10 THEN 0 ELSE 1),
     month |-> IF mp < 10 THEN mp + 3 ELSE mp - 9,
     day |-> doy - ((153 * mp + 2) \div 5) + 1]

CivilOfDay(era, yoe, doy) == CivilOfMonth(era, yoe, doy, (5 * doy + 2) \div 153)

CivilOfYear(era, doe, yoe) == CivilOfDay(era, yoe, DayOfYear(doe, yoe))

CivilOfEra(z, era) ==
    CivilOfYear(era, z - era * 146097, YearOfEra(z - era * 146097))

CivilFromDays(z0) == CivilOfEra(z0 + 719468, (z0 + 719468) \div 146097)

IsLeap(y) == (y % 4 = 0 /\ y % 100 # 0) \/ y % 400 = 0

DaysInMonth(y, m) ==
    IF m = 2 THEN (IF IsLeap(y) THEN 29 ELSE 28)
    ELSE IF m \in {4, 6, 9, 11} THEN 30 ELSE 31

Min(a, b) == IF a <= b THEN a ELSE b

(* plus({ months: n }): the same day of the month n months on, clamped to  *)
(* the length of that month; the time of day is kept.                      *)
MonthsOn(dt, day, y, m) ==
    [wall |-> DaysFromCivil(y, m, Min(day, DaysInMonth(y, m))) * DayUnits
                  + (dt.wall % DayUnits),
     off |-> dt.off]

MonthsFrom(dt, c, k) == MonthsOn(dt, c.day, c.year + (k \div 12), (k % 12) + 1)

MonthsOfCivil(dt, c, n) == MonthsFrom(dt, c, (c.month - 1) + n)

PlusMonths(dt, n) == MonthsOfCivil(dt, CivilFromDays(dt.wall \div DayUnits), n)

----------------------------------------------------------------------------
(* RecurrenceEngine.  An optional value is a sequence of length 0 or 1.    *)

(* Variant: Saturday counts as a working day. *)
WeekdayLoopTakesSaturday(next, guard) ==
    IF Weekday(next) > 6 THEN <<PlusUnits(next, DayUnits)>> ELSE <<next>>

RECURSIVE WeekdayLoop(_, _)
WeekdayLoop(next, guard) ==
    IF Weekday(next) > 5
    THEN IF guard + 1 > GuardLimit
         THEN <<>>
         ELSE WeekdayLoop(PlusUnits(next, DayUnits), guard + 1)
    ELSE <<next>>

getNextRecurrenceDateTime(currentIST, recurrenceType) ==
    CASE recurrenceType = "hourly" -> <<PlusUnits(currentIST, HourUnits)>>
      [] recurrenceType = "daily" -> <<PlusUnits(currentIST, DayUnits)>>
      [] recurrenceType = "weekday" ->
            WeekdayLoop(PlusUnits(currentIST, DayUnits), 0)
      [] recurrenceType = "weekly" -> <<PlusUnits(currentIST, 7 * DayUnits)>>
      [] recurrenceType = "monthly" -> <<PlusMonths(currentIST, 1)>>
      [] recurrenceType = "yearly" -> <<PlusMonths(currentIST, 12)>>
      [] OTHER -> <<>>

(* Variant: the do-while stops at an occurrence equal to now. *)
AdvanceStepStopsAtNow(s, recurrenceType, nowIST) ==
    LET n == getNextRecurrenceDateTime(s.next[1], recurrenceType)
    IN  IF n = <<>>
        THEN [next |-> <<>>, iterations |-> s.iterations + 1, again |-> FALSE]
        ELSE [next |-> n, iterations |-> s.iterations + 1,
              again |-> /\ Instant(n[1]) < Instant(nowIST)
                        /\ s.iterations + 1 < MaxIterations]

(* One pass of the body of the do-while of the job callback and of         *)
(* reconcile, and its test: again while the result is not after nowIST and *)
(* the iteration cap is not reached.                                       *)
AdvanceStep(s, recurrenceType, nowIST) ==
    LET n == getNextRecurrenceDateTime(s.next[1], recurrenceType)
    IN  IF n = <<>>
        THEN [next |-> <<>>, iterations |-> s.iterations + 1, again |-> FALSE]
        ELSE [next |-> n, iterations |-> s.iterations + 1,
              again |-> /\ Instant(n[1]) <= Instant(nowIST)
                        /\ s.iterations + 1 < MaxIterations]

(* At most n passes. *)
RECURSIVE AdvanceRun(_, _, _, _)
AdvanceRun(s, recurrenceType, nowIST, n) ==
    IF n = 0 \/ ~s.again
    THEN s
    ELSE AdvanceRun(AdvanceStep(s, recurrenceType, nowIST), recurrenceType,
                    nowIST, n - 1)

(* At most b runs of 20 passes. *)
RECURSIVE AdvanceRuns(_, _, _, _)
AdvanceRuns(s, recurrenceType, nowIST, b) ==
    IF b = 0 \/ ~s.again
    THEN s
    ELSE AdvanceRuns(AdvanceRun(s, recurrenceType, nowIST, 20), recurrenceType,
                     nowIST, b - 1)

(* The whole do-while, entered with nextIST and iterations: the body runs  *)
(* at least once, and the cap ends it after MaxIterations passes at most.  *)
AdvanceLoop(nextIST, recurrenceType, nowIST, iterations) ==
    LET r == AdvanceRuns([next |-> <<nextIST>>, iterations |-> iterations,
                          again |-> TRUE],
                         recurrenceType, nowIST, (MaxIterations \div 20) + 1)
    IN  [next |-> r.next, iterations |-> r.iterations]

(* Variant: the loop starts one occurrence late. *)
AdvanceSkipsOne(remindAt, recurrenceType, t) ==
    LET r == AdvanceLoop(PlusUnits(FromISO(remindAt), HourUnits),
                         recurrenceType, NowIST(t), 0)
    IN  IF r.next # <<>> /\ r.iterations < MaxIterations THEN r.next ELSE <<>>

(* The advanced DateTime when the loop found one within the cap, else <<>>. *)
Advance(remindAt, recurrenceType, t) ==
    LET r == AdvanceLoop(FromISO(remindAt), recurrenceType, NowIST(t), 0)
    IN  IF r.next # <<>> /\ r.iterations < MaxIterations THEN r.next ELSE <<>>

----------------------------------------------------------------------------
(* TimeExpressionParser.  chrono-node is an external grammar: its result   *)
(* is an input, the Date it resolved (in the host's zone when the phrase   *)
(* names no offset) with its certainty flags, or nothing.                  *)

SetTimeOfDay(dt, base) ==
    [wall |-> (dt.wall \div DayUnits) * DayUnits + (base.wall % DayUnits),
     off |-> dt.off]

ZeroMinute(dt) == [wall |-> dt.wall - (dt.wall % HourUnits), off |-> dt.off]

parseReminderDateTime(chronoResult, baseIST) ==
    IF chronoResult = <<>>
    THEN <<>>
    ELSE LET start == chronoResult[1]
             keepLocalTime == ~start.tzCertain
             dt == SetZoneIST(FromJSDate(start.date), keepLocalTime)
         IN  IF ~start.hourCertain
             THEN <<SetTimeOfDay(dt, baseIST)>>
             ELSE IF ~start.minuteCertain
                  THEN <<ZeroMinute(dt)>>
                  ELSE <<dt>>

----------------------------------------------------------------------------
(* ReminderStore: the storage channel.  messages.fetch({limit: 100})       *)
(* returns the newest FetchLimit messages, newest first.                   *)

Reverse(s) == [i \in 1..Len(s) |-> s[Len(s) + 1 - i]]

(* Variant: the fetch returns every message of the channel. *)
FetchAll(st) == Reverse(st)

Fetch(st) ==
    LET n == Len(st)
        from == IF n > FetchLimit THEN n - FetchLimit + 1 ELSE 1
    IN  Reverse(SubSeq(st, from, n))

(* messages.find: the first message, in the order of the fetch, whose      *)
(* record has the id and, when a user is given, that user.                 *)
FindFirst(msgs, reminderId, expectedUserId) ==
    LET hits == {i \in 1..Len(msgs) :
                    /\ msgs[i].data.id = reminderId
                    /\ (expectedUserId = ""
                            \/ msgs[i].data.userId = expectedUserId)}
    IN  IF hits = {}
        THEN <<>>
        ELSE <<msgs[CHOOSE i \in hits : \A k \in hits : i <= k]>>

(* Variant: the lookup ignores who asks. *)
fetchStoredReminderMessageAnyUser(st, reminderId, expectedUserId) ==
    FindFirst(Fetch(st), reminderId, "")

(* Variant: the lookup ignores the id and returns the asker's newest       *)
(* record.                                                                 *)
fetchStoredReminderMessageAnyId(st, reminderId, expectedUserId) ==
    LET own == SelectSeq(Fetch(st), LAMBDA m : m.data.userId = expectedUserId)
    IN  IF own = <<>> THEN <<>> ELSE <<Head(own)>>

fetchStoredReminderMessage(st, reminderId, expectedUserId) ==
    FindFirst(Fetch(st), reminderId, expectedUserId)

HasMsg(st, mid) == \E i \in 1..Len(st) : st[i].mid = mid

EditMsg(st, mid, data) ==
    [i \in 1..Len(st) |-> IF st[i].mid = mid
                          THEN [mid |-> mid, data |-> data] ELSE st[i]]

DeleteMsg(st, mid) ==
    LET hits == {i \in 1..Len(st) : st[i].mid = mid}
    IN  IF hits = {}
        THEN st
        ELSE LET first == CHOOSE i \in hits : \A k \in hits : i <= k
             IN  SubSeq(st, 1, first - 1) \o SubSeq(st, first + 1, Len(st))

----------------------------------------------------------------------------
(* State of the handlers. *)

Idle == [kind |-> "idle", pc |-> "", user |-> "", id |-> 0, rem |-> <<>>,
         mid |-> 0, resched |-> FALSE]

Task(kind, pc, user, id, rem, mid, resched) ==
    [kind |-> kind, pc |-> pc, user |-> user, id |-> id, rem |-> rem,
     mid |-> mid, resched |-> resched]

FreeSlot(t) ==
    tasks[t] = Idle /\ \A s \in TaskSlots : s < t => tasks[s] # Idle

Outcome(kind, user, id, result) ==
    [kind |-> kind, user |-> user, id |-> id, result |-> result]

NoReply == Outcome("none", "", 0, "")

StoreIds(st) == {st[i].data.id : i \in 1..Len(st)}

(* The ids a user can name: /rme's acknowledgement and the notification's  *)
(* buttons carry the id, so an id is known once its create has finished.   *)
KnownIds ==
    (StoreIds(store) \ {tasks[t].id : t \in {s \in TaskSlots : tasks[s].kind = "rme"}})
        \cup {e[1] : e \in DOMAIN delivered} \cup cancelled

(* What an awaited call on the chat platform can answer. *)
Answers == {"ok", "null", "throw"}

(* The phrases a user types, by what chrono-node resolves them to relative *)
(* to the reference instant, in units, with its certainty flags: "in 30    *)
(* mins", and a date and time 30 hours past, which the one-day repair      *)
(* leaves in the past.                                                     *)
ChronoPhrases ==
    { [delta |-> 1, tz |-> TRUE, hour |-> TRUE, minute |-> TRUE],
      [delta |-> -60, tz |-> TRUE, hour |-> TRUE, minute |-> TRUE] }

ChronoResults(t) ==
    {<<>>} \cup
    { <<[date |-> t + c.delta, tzCertain |-> c.tz, hourCertain |-> c.hour,
         minuteCertain |-> c.minute]>> : c \in ChronoPhrases }

SnoozeUnits(minutes) == minutes \div 30

Init ==
    /\ now = 0
    /\ hostOffset \in HostOffsets
    /\ bound = [time |-> MaxTime, msgs |-> MaxMsgs, ops |-> MaxOps,
                 restarts |-> MaxRestarts]
    /\ up = TRUE
    /\ restarts = 0
    /\ store = <<>>
    /\ nextMid = 1
    /\ msClock = 0
    /\ sameMs = FALSE
    /\ timers = {}
    /\ scheduledJobs = <<>>
    /\ tasks = [t \in TaskSlots |-> Idle]
    /\ pending = {}
    /\ delivered = <<>>
    /\ cancelled = {}
    /\ presses = 0
    /\ reply = NoReply

----------------------------------------------------------------------------
(* /rme: create. *)

(* Variant: a time equal to the reference is not moved to the next day. *)
BuildReminderStrictRepair(chronoResult, user, title, repeat, t, ms) ==
    LET baseIST == NowIST(t)
        parsed == parseReminderDateTime(chronoResult, baseIST)
    IN  IF parsed = <<>>
        THEN [err |-> "Unparsable", data |-> <<>>]
        ELSE LET dt == IF Instant(parsed[1]) < Instant(baseIST)
                       THEN PlusUnits(parsed[1], DayUnits)
                       ELSE parsed[1]
             IN  IF Instant(dt) <= t
                 THEN [err |-> "TimeInPast", data |-> <<>>]
                 ELSE [err |-> "",
                       data |-> <<[id |-> ms, userId |-> user,
                                   channelId |-> "c1",
                                   remindAt |-> ToISO(dt), title |-> title,
                                   recurrence |-> repeat,
                                   triggered |-> FALSE]>>]

(* Variant: the record is created with triggered = true. *)
BuildReminderTriggered(chronoResult, user, title, repeat, t, ms) ==
    LET baseIST == NowIST(t)
        parsed == parseReminderDateTime(chronoResult, baseIST)
    IN  IF parsed = <<>>
        THEN [err |-> "Unparsable", data |-> <<>>]
        ELSE LET dt == IF Instant(parsed[1]) <= Instant(baseIST)
                       THEN PlusUnits(parsed[1], DayUnits)
                       ELSE parsed[1]
             IN  IF Instant(dt) <= t
                 THEN [err |-> "TimeInPast", data |-> <<>>]
                 ELSE [err |-> "",
                       data |-> <<[id |-> ms, userId |-> user,
                                   channelId |-> "c1",
                                   remindAt |-> ToISO(dt), title |-> title,
                                   recurrence |-> repeat,
                                   triggered |-> TRUE]>>]

(* The synchronous head of the handler: parse, repair, reject the past,    *)
(* allocate the id and build the record.  The result is the record or the  *)
(* name of the failure.  ms is the reading of Date.now().                  *)
BuildReminder(chronoResult, user, title, repeat, t, ms) ==
    LET baseIST == NowIST(t)
        parsed == parseReminderDateTime(chronoResult, baseIST)
    IN  IF parsed = <<>>
        THEN [err |-> "Unparsable", data |-> <<>>]
        ELSE LET dt == IF Instant(parsed[1]) <= Instant(baseIST)
                       THEN PlusUnits(parsed[1], DayUnits)
                       ELSE parsed[1]
             IN  IF Instant(dt) <= t
                 THEN [err |-> "TimeInPast", data |-> <<>>]
                 ELSE [err |-> "",
                       data |-> <<[id |-> ms, userId |-> user,
                                   channelId |-> "c1",
                                   remindAt |-> ToISO(dt), title |-> title,
                                   recurrence |-> repeat,
                                   triggered |-> FALSE]>>]

(* Date.now() has millisecond resolution.  Two /rme heads that run back to *)
(* back may read the same millisecond (newMs = FALSE); after any other     *)
(* step the reading has moved on.                                          *)
Rme(t, user, chronoResult, title, repeat, ans, newMs) ==
    /\ up /\ FreeSlot(t)
    /\ nextMid + Cardinality({s \in TaskSlots : tasks[s].kind = "rme"}) <= bound.msgs
    /\ sameMs \/ newMs
    /\ newMs => msClock < bound.msgs
    /\ LET ms == IF newMs THEN msClock + 1 ELSE msClock
           b == BuildReminder(chronoResult, user, title, repeat, now, ms)
       IN  IF b.err # ""
           THEN /\ reply' = Outcome("rme", user, 0, b.err)
                /\ sameMs' = FALSE
                /\ UNCHANGED <<tasks, msClock>>
           ELSE IF ans # "ok"
           THEN /\ reply' = Outcome("rme", user, 0,
                        IF ans = "null" THEN "StoreUnavailable" ELSE "Error")
                /\ sameMs' = FALSE
                /\ UNCHANGED <<tasks, msClock>>
           ELSE /\ tasks' = [tasks EXCEPT ![t] =
                        Task("rme", "send", user, ms, b.data, 0, FALSE)]
                /\ msClock' = ms
                /\ sameMs' = TRUE
                /\ reply' = NoReply
    /\ UNCHANGED <<now, hostOffset, bound, up, restarts, store, nextMid, timers,
                   scheduledJobs, pending, delivered, cancelled, presses>>

(* Variant: a send that throws has posted the message all the same. *)
RmeSendPostsAnyway(t, ok) ==
    /\ up /\ tasks[t].kind = "rme" /\ tasks[t].pc = "send"
    /\ store' = Append(store, [mid |-> nextMid, data |-> tasks[t].rem[1]])
    /\ nextMid' = nextMid + 1
    /\ IF ok
       THEN /\ tasks' = [tasks EXCEPT ![t].pc = "sched"]
            /\ reply' = NoReply
       ELSE /\ reply' = Outcome("rme", tasks[t].user, tasks[t].id, "Error")
            /\ tasks' = [tasks EXCEPT ![t] = Idle]
    /\ sameMs' = FALSE
    /\ UNCHANGED <<msClock, now, hostOffset, bound, up, restarts, timers,
                   scheduledJobs, pending, delivered, cancelled, presses>>

(* storageChannel.send answers: the message is posted, or the send throws. *)
RmeSend(t, ok) ==
    /\ up /\ tasks[t].kind = "rme" /\ tasks[t].pc = "send"
    /\ IF ok
       THEN /\ store' = Append(store, [mid |-> nextMid, data |-> tasks[t].rem[1]])
            /\ nextMid' = nextMid + 1
            /\ tasks' = [tasks EXCEPT ![t].pc = "sched"]
            /\ reply' = NoReply
       ELSE /\ reply' = Outcome("rme", tasks[t].user, tasks[t].id, "Error")
            /\ tasks' = [tasks EXCEPT ![t] = Idle]
            /\ UNCHANGED <<store, nextMid>>
    /\ sameMs' = FALSE
    /\ UNCHANGED <<msClock, now, hostOffset, bound, up, restarts, timers, scheduledJobs,
                   pending, delivered, cancelled, presses>>

RmeSchedule(t) ==
    /\ up /\ tasks[t].kind = "rme" /\ tasks[t].pc = "sched"
    /\ LET S == scheduleReminder(Reg, tasks[t].rem[1], now)
       IN  /\ timers' = S.timers
           /\ scheduledJobs' = S.scheduledJobs
    /\ reply' = Outcome("rme", tasks[t].user, tasks[t].id, "Created")
    /\ tasks' = [tasks EXCEPT ![t] = Idle]
    /\ sameMs' = FALSE
    /\ UNCHANGED <<msClock, now, hostOffset, bound, up, restarts, store, nextMid, pending,
                   delivered, cancelled, presses>>

----------------------------------------------------------------------------
(* The job callback: the fire handler. *)

Deliver(d, id, at) ==
    IF <<id, at>> \in DOMAIN d
    THEN [d EXCEPT ![<<id, at>>] = @ + 1]
    ELSE Put(d, <<id, at>>, 1)

(* The job's date is reached: node-schedule invokes the callback, whose    *)
(* first statement removes the registry entry of the reminder's id.        *)
JobFire(t, j) ==
    /\ up /\ FreeSlot(t) /\ j \in timers /\ j.at <= now
    /\ timers' = timers \ {j}
    /\ scheduledJobs' = Drop(scheduledJobs, j.reminder.id)
    /\ tasks' = [tasks EXCEPT ![t] =
            Task("fire", "send", j.reminder.userId, j.reminder.id,
                 <<j.reminder>>, 0, FALSE)]
    /\ reply' = NoReply
    /\ sameMs' = FALSE
    /\ UNCHANGED <<msClock, now, hostOffset, bound, up, restarts, store, nextMid, pending,
                   delivered, cancelled, presses>>

(* Variant: the record is marked triggered as the notification goes out,   *)
(* before any re-fetch.                                                    *)
FireSendMarksFirst(t, ans) ==
    /\ up /\ tasks[t].kind = "fire" /\ tasks[t].pc = "send"
    /\ IF ans = "ok"
       THEN /\ delivered' = Deliver(delivered, tasks[t].id,
                                    NewDate(tasks[t].rem[1].remindAt))
            /\ store' = [i \in 1..Len(store) |->
                    IF store[i].data.id = tasks[t].id
                    THEN [store[i] EXCEPT !.data.triggered = TRUE]
                    ELSE store[i]]
            /\ tasks' = [tasks EXCEPT ![t].pc = "refetch"]
            /\ reply' = NoReply
       ELSE /\ reply' = NoReply
            /\ tasks' = [tasks EXCEPT ![t] = Idle]
            /\ UNCHANGED <<delivered, store>>
    /\ sameMs' = FALSE
    /\ UNCHANGED <<msClock, now, hostOffset, bound, up, restarts, nextMid, timers,
                   scheduledJobs, pending, cancelled, presses>>

(* client.channels.fetch(channelId) and channel.send. *)
FireSend(t, ans) ==
    /\ up /\ tasks[t].kind = "fire" /\ tasks[t].pc = "send"
    /\ IF ans = "ok"
       THEN /\ delivered' = Deliver(delivered, tasks[t].id,
                                    NewDate(tasks[t].rem[1].remindAt))
            /\ tasks' = [tasks EXCEPT ![t].pc = "refetch"]
            /\ reply' = NoReply
       ELSE /\ reply' = NoReply
            /\ tasks' = [tasks EXCEPT ![t] = Idle]
            /\ UNCHANGED delivered
    /\ sameMs' = FALSE
    /\ UNCHANGED <<msClock, now, hostOffset, bound, up, restarts, store, nextMid, timers,
                   scheduledJobs, pending, cancelled, presses>>

(* The record the callback writes back, from the message it re-fetched and *)
(* the reminder object the job was created with.                           *)
PostFire(currentData, reminder, t) ==
    IF currentData.recurrence # "none"
    THEN LET adv == Advance(reminder.remindAt, currentData.recurrence, t)
         IN  IF adv # <<>>
             THEN [data |-> [currentData EXCEPT !.remindAt = ToISO(adv[1]),
                                                !.triggered = FALSE],
                   resched |-> TRUE]
             ELSE [data |-> [currentData EXCEPT !.triggered = TRUE],
                   resched |-> FALSE]
    ELSE [data |-> [currentData EXCEPT !.triggered = TRUE], resched |-> FALSE]

(* Variant: when the fetch fails the job is installed again. *)
FireRefetchRetries(t, ans) ==
    /\ up /\ tasks[t].kind = "fire" /\ tasks[t].pc = "refetch"
    /\ LET found == fetchStoredReminderMessage(store, tasks[t].id, "")
       IN  IF ans = "ok" /\ found # <<>>
           THEN LET w == PostFire(found[1].data, tasks[t].rem[1], now)
                IN  /\ tasks' = [tasks EXCEPT ![t] =
                            Task("fire", "edit", tasks[t].user, tasks[t].id,
                                 <<w.data>>, found[1].mid, w.resched)]
                    /\ UNCHANGED <<timers, scheduledJobs>>
           ELSE LET jid == FreshJid(Reg)
                IN  /\ tasks' = [tasks EXCEPT ![t] = Idle]
                    /\ timers' = timers \cup
                          {[jid |-> jid, reminder |-> tasks[t].rem[1],
                            at |-> now + 1]}
                    /\ scheduledJobs' = Put(scheduledJobs, tasks[t].id, jid)
    /\ reply' = NoReply
    /\ sameMs' = FALSE
    /\ UNCHANGED <<msClock, now, hostOffset, bound, up, restarts, store, nextMid,
                   pending, delivered, cancelled, presses>>

(* Variant: with no stored record the callback goes on with the record the *)
(* job was created with.                                                   *)
FireRefetchUsesClosure(t, ans) ==
    /\ up /\ tasks[t].kind = "fire" /\ tasks[t].pc = "refetch"
    /\ LET found == fetchStoredReminderMessage(store, tasks[t].id, "")
       IN  IF ans = "ok"
           THEN LET cur == IF found # <<>> THEN found[1].data ELSE tasks[t].rem[1]
                    w == PostFire(cur, tasks[t].rem[1], now)
                IN  /\ tasks' = [tasks EXCEPT ![t] =
                            Task("fire", "edit", tasks[t].user, tasks[t].id,
                                 <<w.data>>,
                                 IF found # <<>> THEN found[1].mid ELSE 0,
                                 w.resched)]
                    /\ reply' = NoReply
           ELSE /\ reply' = NoReply
                /\ tasks' = [tasks EXCEPT ![t] = Idle]
    /\ sameMs' = FALSE
    /\ UNCHANGED <<msClock, now, hostOffset, bound, up, restarts, store, nextMid, timers,
                   scheduledJobs, pending, delivered, cancelled, presses>>

(* The storage channel and its last messages are fetched; the record with  *)
(* the reminder's id is looked up among them.                              *)
FireRefetch(t, ans) ==
    /\ up /\ tasks[t].kind = "fire" /\ tasks[t].pc = "refetch"
    /\ LET found == fetchStoredReminderMessage(store, tasks[t].id, "")
       IN  IF ans = "ok" /\ found # <<>>
           THEN LET w == PostFire(found[1].data, tasks[t].rem[1], now)
                IN  /\ tasks' = [tasks EXCEPT ![t] =
                            Task("fire", "edit", tasks[t].user, tasks[t].id,
                                 <<w.data>>, found[1].mid, w.resched)]
                    /\ reply' = NoReply
           ELSE /\ reply' = NoReply
                /\ tasks' = [tasks EXCEPT ![t] = Idle]
    /\ sameMs' = FALSE
    /\ UNCHANGED <<msClock, now, hostOffset, bound, up, restarts, store, nextMid, timers,
                   scheduledJobs, pending, delivered, cancelled, presses>>

(* Variant: the edit keeps the remindAt the store holds at that moment. *)
FireEditKeepsStored(t, ok) ==
    /\ up /\ tasks[t].kind = "fire" /\ tasks[t].pc = "edit"
    /\ IF ok /\ HasMsg(store, tasks[t].mid)
       THEN /\ store' = [i \in 1..Len(store) |->
                    IF store[i].mid = tasks[t].mid /\ ~tasks[t].resched
                    THEN [store[i] EXCEPT !.data.triggered = TRUE]
                    ELSE IF store[i].mid = tasks[t].mid
                    THEN [store[i] EXCEPT !.data = tasks[t].rem[1]]
                    ELSE store[i]]
            /\ IF tasks[t].resched
               THEN /\ tasks' = [tasks EXCEPT ![t].pc = "sched"]
                    /\ reply' = NoReply
               ELSE /\ reply' = NoReply
                    /\ tasks' = [tasks EXCEPT ![t] = Idle]
       ELSE /\ reply' = NoReply
            /\ tasks' = [tasks EXCEPT ![t] = Idle]
            /\ UNCHANGED store
    /\ sameMs' = FALSE
    /\ UNCHANGED <<msClock, now, hostOffset, bound, up, restarts, nextMid, timers,
                   scheduledJobs, pending, delivered, cancelled, presses>>

(* storageMessage.edit answers. *)
FireEdit(t, ok) ==
    /\ up /\ tasks[t].kind = "fire" /\ tasks[t].pc = "edit"
    /\ IF ok /\ HasMsg(store, tasks[t].mid)
       THEN /\ store' = EditMsg(store, tasks[t].mid, tasks[t].rem[1])
            /\ IF tasks[t].resched
               THEN /\ tasks' = [tasks EXCEPT ![t].pc = "sched"]
                    /\ reply' = NoReply
               ELSE /\ reply' = NoReply
                    /\ tasks' = [tasks EXCEPT ![t] = Idle]
       ELSE /\ reply' = NoReply
            /\ tasks' = [tasks EXCEPT ![t] = Idle]
            /\ UNCHANGED store
    /\ sameMs' = FALSE
    /\ UNCHANGED <<msClock, now, hostOffset, bound, up, restarts, nextMid, timers,
                   scheduledJobs, pending, delivered, cancelled, presses>>

FireSchedule(t) ==
    /\ up /\ tasks[t].kind = "fire" /\ tasks[t].pc = "sched"
    /\ LET S == scheduleReminder(Reg, tasks[t].rem[1], now)
       IN  /\ timers' = S.timers
           /\ scheduledJobs' = S.scheduledJobs
    /\ reply' = NoReply
    /\ tasks' = [tasks EXCEPT ![t] = Idle]
    /\ sameMs' = FALSE
    /\ UNCHANGED <<msClock, now, hostOffset, bound, up, restarts, store, nextMid, pending,
                   delivered, cancelled, presses>>

----------------------------------------------------------------------------
(* The snooze_ button. *)

(* Variant: a snoozed reminder no longer repeats. *)
SnoozedDataOneOff(data, minutes, t) ==
    LET newDate == t + SnoozeUnits(minutes)
    IN  [data EXCEPT !.remindAt = ToISO(SetZoneIST(FromJSDate(newDate), TRUE)),
                     !.triggered = FALSE, !.recurrence = "none"]

SnoozedData(data, minutes, t) ==
    LET newDate == t + SnoozeUnits(minutes)
    IN  [data EXCEPT !.remindAt = ToISO(SetZoneIST(FromJSDate(newDate), TRUE)),
                     !.triggered = FALSE]

(* The instant the snooze acknowledgement shows: newDate itself, the press  *)
(* plus the duration, in whole seconds.                                    *)
snoozedUntilUnix(minutes, t) == t + SnoozeUnits(minutes)

Snooze(t, user, reminderId, minutes, ans) ==
    /\ up /\ FreeSlot(t) /\ presses < bound.ops
    /\ LET found == fetchStoredReminderMessage(store, reminderId, user)
       IN  IF ans # "ok"
           THEN /\ reply' = Outcome("snooze", user, reminderId,
                        IF ans = "null" THEN "StoreUnavailable" ELSE "Error")
                /\ UNCHANGED tasks
           ELSE IF found = <<>>
           THEN /\ reply' = Outcome("snooze", user, reminderId, "NotFound")
                /\ UNCHANGED tasks
           ELSE /\ tasks' = [tasks EXCEPT ![t] =
                        Task("snooze", "edit", user, reminderId,
                             <<SnoozedData(found[1].data, minutes, now)>>,
                             found[1].mid, TRUE)]
                /\ reply' = NoReply
    /\ presses' = presses + 1
    /\ sameMs' = FALSE
    /\ UNCHANGED <<msClock, now, hostOffset, bound, up, restarts, store, nextMid, timers,
                   scheduledJobs, pending, delivered, cancelled>>

(* Variant: a rejected edit takes every job down with it. *)
SnoozeEditFailureStopsJobs(t, ok) ==
    /\ up /\ tasks[t].kind = "snooze" /\ tasks[t].pc = "edit"
    /\ IF ok /\ HasMsg(store, tasks[t].mid)
       THEN /\ store' = EditMsg(store, tasks[t].mid, tasks[t].rem[1])
            /\ tasks' = [tasks EXCEPT ![t].pc = "sched"]
            /\ reply' = NoReply
            /\ UNCHANGED <<timers, scheduledJobs>>
       ELSE /\ reply' = Outcome("snooze", tasks[t].user, tasks[t].id, "Error")
            /\ tasks' = [tasks EXCEPT ![t] = Idle]
            /\ timers' = {}
            /\ scheduledJobs' = <<>>
            /\ UNCHANGED store
    /\ sameMs' = FALSE
    /\ UNCHANGED <<msClock, now, hostOffset, bound, up, restarts, nextMid,
                   pending, delivered, cancelled, presses>>

SnoozeEdit(t, ok) ==
    /\ up /\ tasks[t].kind = "snooze" /\ tasks[t].pc = "edit"
    /\ IF ok /\ HasMsg(store, tasks[t].mid)
       THEN /\ store' = EditMsg(store, tasks[t].mid, tasks[t].rem[1])
            /\ tasks' = [tasks EXCEPT ![t].pc = "sched"]
            /\ reply' = NoReply
       ELSE /\ reply' = Outcome("snooze", tasks[t].user, tasks[t].id, "Error")
            /\ tasks' = [tasks EXCEPT ![t] = Idle]
            /\ UNCHANGED store
    /\ sameMs' = FALSE
    /\ UNCHANGED <<msClock, now, hostOffset, bound, up, restarts, nextMid, timers,
                   scheduledJobs, pending, delivered, cancelled, presses>>

SnoozeSchedule(t) ==
    /\ up /\ tasks[t].kind = "snooze" /\ tasks[t].pc = "sched"
    /\ LET S == scheduleReminder(Reg, tasks[t].rem[1], now)
       IN  /\ timers' = S.timers
           /\ scheduledJobs' = S.scheduledJobs
    /\ reply' = Outcome("snooze", tasks[t].user, tasks[t].id, "Snoozed")
    /\ tasks' = [tasks EXCEPT ![t] = Idle]
    /\ sameMs' = FALSE
    /\ UNCHANGED <<msClock, now, hostOffset, bound, up, restarts, store, nextMid, pending,
                   delivered, cancelled, presses>>

----------------------------------------------------------------------------
(* /delrme and the cancel_ button: the same steps in both handlers. *)

Cancel(t, user, reminderId, ans) ==
    /\ up /\ FreeSlot(t) /\ presses < bound.ops
    /\ LET found == fetchStoredReminderMessage(store, reminderId, user)
       IN  IF ans # "ok"
           THEN /\ reply' = Outcome("cancel", user, reminderId,
                        IF ans = "null" THEN "StoreUnavailable" ELSE "Error")
                /\ UNCHANGED <<tasks, timers, scheduledJobs>>
           ELSE IF found = <<>>
           THEN /\ reply' = Outcome("cancel", user, reminderId, "NotFound")
                /\ UNCHANGED <<tasks, timers, scheduledJobs>>
           ELSE LET S == cancelScheduledJob(Reg, reminderId)
                IN  /\ timers' = S.timers
                    /\ scheduledJobs' = S.scheduledJobs
                    /\ tasks' = [tasks EXCEPT ![t] =
                            Task("cancel", "delete", user, reminderId, <<>>,
                                 found[1].mid, FALSE)]
                    /\ reply' = NoReply
    /\ presses' = presses + 1
    /\ sameMs' = FALSE
    /\ UNCHANGED <<msClock, now, hostOffset, bound, up, restarts, store, nextMid, pending,
                   delivered, cancelled>>

CancelDelete(t, ok) ==
    /\ up /\ tasks[t].kind = "cancel" /\ tasks[t].pc = "delete"
    /\ IF ok /\ HasMsg(store, tasks[t].mid)
       THEN /\ store' = DeleteMsg(store, tasks[t].mid)
            /\ cancelled' = cancelled \cup {tasks[t].id}
            /\ reply' = Outcome(tasks[t].kind, tasks[t].user, tasks[t].id, "Cancelled")
       ELSE /\ reply' = Outcome(tasks[t].kind, tasks[t].user, tasks[t].id, "Error")
            /\ UNCHANGED <<store, cancelled>>
    /\ tasks' = [tasks EXCEPT ![t] = Idle]
    /\ sameMs' = FALSE
    /\ UNCHANGED <<msClock, now, hostOffset, bound, up, restarts, nextMid, timers,
                   scheduledJobs, pending, delivered, presses>>

----------------------------------------------------------------------------
(* Process restart and the 'ready' handler: reconcile. *)

(* Variant: a record that is due is left alone. *)
ReconcileOneLeavesPast(acc, message, t) ==
    IF NewDate(message.data.remindAt) > t
    THEN [reg |-> scheduleReminder(acc.reg, message.data, t), ops |-> acc.ops]
    ELSE acc

(* One pass of messages.forEach: schedule a future record; advance a past  *)
(* recurring one, edit its message and schedule it; delete the rest.  The  *)
(* edits and deletes are requests nobody awaits.                           *)
ReconcileOne(acc, message, t) ==
    LET data == message.data
    IN  IF NewDate(data.remindAt) > t
        THEN [reg |-> scheduleReminder(acc.reg, data, t), ops |-> acc.ops]
        ELSE IF data.recurrence # "none"
        THEN LET adv == Advance(data.remindAt, data.recurrence, t)
             IN  IF adv # <<>>
                 THEN LET d2 == [data EXCEPT !.remindAt = ToISO(adv[1])]
                      IN  [reg |-> scheduleReminder(acc.reg, d2, t),
                           ops |-> acc.ops \cup
                               {[op |-> "edit", mid |-> message.mid, data |-> <<d2>>]}]
                 ELSE [reg |-> acc.reg,
                       ops |-> acc.ops \cup
                           {[op |-> "delete", mid |-> message.mid, data |-> <<>>]}]
        ELSE [reg |-> acc.reg,
              ops |-> acc.ops \cup
                  {[op |-> "delete", mid |-> message.mid, data |-> <<>>]}]

(* The next n passes of the forEach at most. *)
RECURSIVE ReconcileRun(_, _, _, _)
ReconcileRun(acc, messages, t, n) ==
    IF n = 0 \/ messages = <<>>
    THEN acc
    ELSE ReconcileRun(ReconcileOne(acc, Head(messages), t), Tail(messages),
                      t, n - 1)

(* messages.forEach, taken ten passes at a time; no pass adds more than    *)
(* one request, so their number stays within FetchLimit.                   *)
RECURSIVE Reconcile(_, _, _)
Reconcile(acc, messages, t) ==
    IF messages = <<>> \/ Cardinality(acc.ops) > FetchLimit
    THEN acc
    ELSE Reconcile(ReconcileRun(acc, messages, t, 10),
                   SubSeq(messages, Min(10, Len(messages)) + 1, Len(messages)),
                   t)

(* The process dies: its jobs, its registry and its handlers are gone. *)
Crash ==
    /\ up /\ restarts < bound.restarts
    /\ up' = FALSE
    /\ restarts' = restarts + 1
    /\ timers' = {}
    /\ scheduledJobs' = <<>>
    /\ tasks' = [t \in TaskSlots |-> Idle]
    /\ pending' = {}
    /\ reply' = NoReply
    /\ sameMs' = FALSE
    /\ UNCHANGED <<msClock, now, hostOffset, bound, store, nextMid, delivered, cancelled, presses>>

Ready(ans) ==
    /\ ~up
    /\ up' = TRUE
    /\ LET r == IF ans = "ok"
                THEN Reconcile([reg |-> Reg, ops |-> {}], Fetch(store), now)
                ELSE [reg |-> Reg, ops |-> {}]
       IN  /\ timers' = r.reg.timers
           /\ scheduledJobs' = r.reg.scheduledJobs
           /\ pending' = r.ops
    /\ reply' = NoReply
    /\ sameMs' = FALSE
    /\ UNCHANGED <<msClock, now, hostOffset, bound, restarts, store, nextMid, tasks,
                   delivered, cancelled, presses>>

(* One of reconcile's requests reaches the storage channel. *)
ReconcileWrite(p, ok) ==
    /\ up /\ p \in pending
    /\ pending' = pending \ {p}
    /\ IF ok /\ HasMsg(store, p.mid)
       THEN store' = IF p.op = "edit"
                     THEN EditMsg(store, p.mid, p.data[1])
                     ELSE DeleteMsg(store, p.mid)
       ELSE UNCHANGED store
    /\ reply' = NoReply
    /\ sameMs' = FALSE
    /\ UNCHANGED <<msClock, now, hostOffset, bound, up, restarts, nextMid, timers,
                   scheduledJobs, tasks, delivered, cancelled, presses>>

----------------------------------------------------------------------------
(* Time passes.  While the process runs, a job whose date is reached is    *)
(* invoked before the clock moves on.                                      *)
Tick ==
    /\ now < bound.time
    /\ up => \A j \in timers : j.at > now
    /\ now' = now + 1
    /\ reply' = NoReply
    /\ sameMs' = FALSE
    /\ UNCHANGED <<msClock, hostOffset, bound, up, restarts, store, nextMid, timers,
                   scheduledJobs, tasks, pending, delivered, cancelled, presses>>

Next ==
    \/ \E t \in TaskSlots, u \in Creators, c \in ChronoResults(now),
          title \in Titles, repeat \in Repeats, ans \in Answers,
          newMs \in BOOLEAN :
            Rme(t, u, c, title, repeat, ans, newMs)
    \/ \E t \in TaskSlots, ok \in BOOLEAN : RmeSend(t, ok)
    \/ \E t \in TaskSlots : RmeSchedule(t)
    \/ \E t \in TaskSlots, j \in timers : JobFire(t, j)
    \/ \E t \in TaskSlots, ans \in Answers : FireSend(t, ans)
    \/ \E t \in TaskSlots, ans \in Answers : FireRefetch(t, ans)
    \/ \E t \in TaskSlots, ok \in BOOLEAN : FireEdit(t, ok)
    \/ \E t \in TaskSlots : FireSchedule(t)
    \/ \E t \in TaskSlots, u \in Users, id \in KnownIds, m \in SnoozeChoices,
          ans \in Answers : Snooze(t, u, id, m, ans)
    \/ \E t \in TaskSlots, ok \in BOOLEAN : SnoozeEdit(t, ok)
    \/ \E t \in TaskSlots : SnoozeSchedule(t)
    \/ \E t \in TaskSlots, u \in Users, id \in KnownIds, ans \in Answers :
            Cancel(t, u, id, ans)
    \/ \E t \in TaskSlots, ok \in BOOLEAN : CancelDelete(t, ok)
    \/ Crash
    \/ \E ans \in Answers : Ready(ans)
    \/ \E p \in pending, ok \in BOOLEAN : ReconcileWrite(p, ok)
    \/ Tick

Spec == Init /\ [][Next]_vars

InitTwo ==
    /\ now = 0
    /\ hostOffset = 0
    /\ bound = [time |-> TwoTime, msgs |-> TwoMsgs, ops |-> TwoOps,
                 restarts |-> TwoRestarts]
    /\ up = TRUE
    /\ restarts = 0
    /\ store = <<>>
    /\ nextMid = 1
    /\ msClock = 0
    /\ sameMs = FALSE
    /\ timers = {}
    /\ scheduledJobs = <<>>
    /\ tasks = [t \in TaskSlots |-> Idle]
    /\ pending = {}
    /\ delivered = <<>>
    /\ cancelled = {}
    /\ presses = 0
    /\ reply = NoReply

SpecTwo == InitTwo /\ [][Next]_vars

(* The program when the process stays up, the storage channel and the     *)
(* notification channel answer every call, and no button is pressed.       *)
InitLive ==
    /\ now = 0
    /\ hostOffset \in HostOffsets
    /\ bound = [time |-> LiveTime, msgs |-> LiveMsgs, ops |-> 0, restarts |-> 0]
    /\ up = TRUE
    /\ restarts = 0
    /\ store = <<>>
    /\ nextMid = 1
    /\ msClock = 0
    /\ sameMs = FALSE
    /\ timers = {}
    /\ scheduledJobs = <<>>
    /\ tasks = [t \in TaskSlots |-> Idle]
    /\ pending = {}
    /\ delivered = <<>>
    /\ cancelled = {}
    /\ presses = 0
    /\ reply = NoReply

NextLive ==
    \/ \E t \in TaskSlots, u \in Creators, c \in ChronoResults(now),
          title \in Titles, repeat \in Repeats, newMs \in BOOLEAN :
            Rme(t, u, c, title, repeat, "ok", newMs)
    \/ \E t \in TaskSlots : RmeSend(t, TRUE)
    \/ \E t \in TaskSlots : RmeSchedule(t)
    \/ \E t \in TaskSlots, j \in timers : JobFire(t, j)
    \/ \E t \in TaskSlots : FireSend(t, "ok")
    \/ \E t \in TaskSlots : FireRefetch(t, "ok")
    \/ \E t \in TaskSlots : FireEdit(t, TRUE)
    \/ \E t \in TaskSlots : FireSchedule(t)
    \/ Tick

(* Every awaited call resolves and its handler resumes, node-schedule      *)
(* invokes a job whose date is reached, and the clock moves on.  Nothing   *)
(* obliges a user to type /rme.                                            *)
Fairness ==
    /\ WF_vars(\E t \in TaskSlots : RmeSend(t, TRUE))
    /\ WF_vars(\E t \in TaskSlots : RmeSchedule(t))
    /\ WF_vars(\E t \in TaskSlots, j \in timers : JobFire(t, j))
    /\ WF_vars(\E t \in TaskSlots : FireSend(t, "ok"))
    /\ WF_vars(\E t \in TaskSlots : FireRefetch(t, "ok"))
    /\ WF_vars(\E t \in TaskSlots : FireEdit(t, TRUE))
    /\ WF_vars(\E t \in TaskSlots : FireSchedule(t))
    /\ WF_vars(Tick)

SpecLive == InitLive /\ [][NextLive]_vars /\ Fairness

(* The process is down and the storage channel holds one record written   *)
(* earlier: any recurrence, a fire time on any day of one week at 09:00 or *)
(* 23:30, and a clock that is before, at or after the fire time by up to   *)
(* 400 days.  DownDay is a Monday (1 January 2024).  A record without      *)
(* recurrence has triggered = true only once its job has run (491-492).  A *)
(* recurring record has it when a job callback that ran MaxIterations      *)
(* occurrences late (the host was suspended) wrote triggered = true (487)  *)
(* into the record a snooze had just moved (669-671).                      *)
DownKinds == {"none", "hourly", "daily", "weekday", "weekly", "monthly", "yearly"}

DownWalls == {(DownDay + d) * DayUnits + h : d \in 0..DownDays, h \in {18, 47}}

DownLags == {-1, 0, 1, HourUnits, DayUnits, 2424, 797, 798,
             399 * DayUnits, 400 * DayUnits}

DownRecords ==
    {[id |-> 1, userId |-> "u1", channelId |-> "c1",
      remindAt |-> [wall |-> w, off |-> ISTOffset], title |-> "",
      recurrence |-> k, triggered |-> g] :
        w \in DownWalls, k \in DownKinds, g \in BOOLEAN}

InitDown ==
    /\ hostOffset \in HostOffsets
    /\ \E r \in DownRecords, lag \in DownLags :
          /\ (r.triggered /\ r.recurrence = "none") => lag >= 0
          /\ store = <<[mid |-> 1, data |-> r]>>
          /\ now = NewDate(r.remindAt) + lag
    /\ bound = [time |-> 0, msgs |-> 1, ops |-> DownOps, restarts |-> DownRestarts]
    /\ up = FALSE
    /\ restarts = 1
    /\ nextMid = 2
    /\ msClock = 1
    /\ sameMs = FALSE
    /\ timers = {}
    /\ scheduledJobs = <<>>
    /\ tasks = [t \in TaskSlots |-> Idle]
    /\ pending = {}
    /\ delivered = <<>>
    /\ cancelled = {}
    /\ presses = 0
    /\ reply = NoReply

NextDown ==
    \/ \E ans \in Answers : Ready(ans)
    \/ \E p \in pending, ok \in BOOLEAN : ReconcileWrite(p, ok)

SpecDown == InitDown /\ [][NextDown]_vars

(* The process is up with an empty storage channel and one /rme arrives,  *)
(* in the first or the last hours of one UTC day, with a phrase that       *)
(* chrono-node                                                             *)
(* resolves from 30 hours before the reference to one hour after it, with  *)
(* every combination of certainty flags, or with "tomorrow at 10am".       *)
CreateDeltas == {-60, -49, -48, -47, -1, 0, 1, 2}

CreateResults(t) ==
    {<<>>} \cup
    { <<[date |-> t + d, tzCertain |-> tz, hourCertain |-> h,
         minuteCertain |-> m]>> :
        d \in CreateDeltas, tz \in BOOLEAN, h \in BOOLEAN, m \in BOOLEAN }

(* What chrono-node resolves "tomorrow at 10am" to: it reads the reference *)
(* Date in the host's zone, takes the next calendar day there at 10:00,    *)
(* and reports the hour as given, the minute and the offset as implied.    *)
ChronoTomorrowAt10am(t) ==
    <<[date |-> (((t + hostOffset) \div DayUnits) + 1) * DayUnits
                    + 10 * HourUnits - hostOffset,
       tzCertain |-> FALSE, hourCertain |-> TRUE, minuteCertain |-> FALSE]>>

InitCreate ==
    /\ hostOffset \in HostOffsets
    /\ now \in {DownDay * DayUnits + h :
                    h \in (0..CreateSpan) \cup
                          ((DayUnits - 1 - CreateSpan)..(DayUnits - 1))}
    /\ bound = [time |-> 0, msgs |-> 1, ops |-> 0, restarts |-> 0]
    /\ up = TRUE
    /\ restarts = 0
    /\ store = <<>>
    /\ nextMid = 1
    /\ msClock = 0
    /\ sameMs = FALSE
    /\ timers = {}
    /\ scheduledJobs = <<>>
    /\ tasks = [t \in TaskSlots |-> Idle]
    /\ pending = {}
    /\ delivered = <<>>
    /\ cancelled = {}
    /\ presses = 0
    /\ reply = NoReply

NextCreate ==
    \/ \E t \in TaskSlots, u \in Creators, c \in CreateResults(now),
          title \in Titles, repeat \in Repeats, ans \in Answers,
          newMs \in BOOLEAN :
            Rme(t, u, c, title, repeat, ans, newMs)
    \/ \E t \in TaskSlots, u \in Creators, title \in Titles,
          repeat \in Repeats, ans \in Answers, newMs \in BOOLEAN :
            Rme(t, u, ChronoTomorrowAt10am(now), title, repeat, ans, newMs)
    \/ \E t \in TaskSlots, ok \in BOOLEAN : RmeSend(t, ok)
    \/ \E t \in TaskSlots : RmeSchedule(t)

SpecCreate == InitCreate /\ [][NextCreate]_vars

(* The process starts with two records in the storage channel, written by *)
(* two users into two channels with two titles, due now or in 30 minutes,  *)
(* repeating or not; then the jobs run and buttons are pressed.            *)
FrameRecords(id, user, channel, title) ==
    {[id |-> id, userId |-> user, channelId |-> channel,
      remindAt |-> [wall |-> w, off |-> ISTOffset], title |-> title,
      recurrence |-> k, triggered |-> FALSE] :
        w \in {ISTOffset, ISTOffset + 1}, k \in Repeats}

InitFrame ==
    /\ now = 0
    /\ hostOffset \in HostOffsets
    /\ bound = [time |-> FrameTime, msgs |-> 2, ops |-> FrameOps, restarts |-> 0]
    /\ up = FALSE
    /\ restarts = 0
    /\ \E a \in FrameRecords(1, "u1", "c1", ""),
          b \in FrameRecords(2, "u2", "c2", "t") :
            store = <<[mid |-> 1, data |-> a], [mid |-> 2, data |-> b]>>
    /\ nextMid = 3
    /\ msClock = 2
    /\ sameMs = FALSE
    /\ timers = {}
    /\ scheduledJobs = <<>>
    /\ tasks = [t \in TaskSlots |-> Idle]
    /\ pending = {}
    /\ delivered = <<>>
    /\ cancelled = {}
    /\ presses = 0
    /\ reply = NoReply

NextFrame ==
    \/ \E ans \in Answers : Ready(ans)
    \/ \E p \in pending, ok \in BOOLEAN : ReconcileWrite(p, ok)
    \/ \E t \in TaskSlots, j \in timers : JobFire(t, j)
    \/ \E t \in TaskSlots, ans \in Answers : FireSend(t, ans)
    \/ \E t \in TaskSlots, ans \in Answers : FireRefetch(t, ans)
    \/ \E t \in TaskSlots, ok \in BOOLEAN : FireEdit(t, ok)
    \/ \E t \in TaskSlots : FireSchedule(t)
    \/ \E t \in TaskSlots, u \in Users, id \in KnownIds, m \in SnoozeChoices,
          ans \in Answers : Snooze(t, u, id, m, ans)
    \/ \E t \in TaskSlots, ok \in BOOLEAN : SnoozeEdit(t, ok)
    \/ \E t \in TaskSlots : SnoozeSchedule(t)
    \/ \E t \in TaskSlots, u \in Users, id \in KnownIds, ans \in Answers :
            Cancel(t, u, id, ans)
    \/ \E t \in TaskSlots, ok \in BOOLEAN : CancelDelete(t, ok)
    \/ Tick

SpecFrame == InitFrame /\ [][NextFrame]_vars

(* The storage channel holds FetchLimit + 1 records of one user and the    *)
(* process is up with a job for each: the oldest record, one message too   *)
(* old for a fetch, and the newest are due in 30 minutes, the others in    *)
(* 100 days.  Buttons are pressed for the oldest and the newest.           *)
WindowIds == {1, FetchLimit + 1}

WindowRecord(id, kind) ==
    [id |-> id, userId |-> "u1", channelId |-> "c1",
     remindAt |-> [wall |-> IF id \in WindowIds THEN ISTOffset + 1
                                                ELSE 100 * DayUnits,
                   off |-> ISTOffset],
     title |-> "", recurrence |-> kind, triggered |-> FALSE]

InitWindow ==
    /\ now = 0
    /\ hostOffset \in HostOffsets
    /\ bound = [time |-> WindowTime, msgs |-> FetchLimit + 1, ops |-> WindowOps,
                 restarts |-> WindowRestarts]
    /\ up = TRUE
    /\ restarts = 0
    /\ \E old \in Repeats :
          LET rec(i) == WindowRecord(i, IF i = 1 THEN old ELSE "none")
          IN  /\ store = [i \in 1..(FetchLimit + 1) |-> [mid |-> i, data |-> rec(i)]]
              /\ timers = {[jid |-> i, at |-> NewDate(rec(i).remindAt),
                            reminder |-> rec(i)] : i \in 1..(FetchLimit + 1)}
    /\ scheduledJobs = [i \in 1..(FetchLimit + 1) |-> i]
    /\ nextMid = FetchLimit + 2
    /\ msClock = FetchLimit + 1
    /\ sameMs = FALSE
    /\ tasks = [t \in TaskSlots |-> Idle]
    /\ pending = {}
    /\ delivered = <<>>
    /\ cancelled = {}
    /\ presses = 0
    /\ reply = NoReply

NextWindow ==
    \/ \E t \in TaskSlots, j \in timers : JobFire(t, j)
    \/ \E t \in TaskSlots, ans \in Answers : FireSend(t, ans)
    \/ \E t \in TaskSlots, ans \in Answers : FireRefetch(t, ans)
    \/ \E t \in TaskSlots, ok \in BOOLEAN : FireEdit(t, ok)
    \/ \E t \in TaskSlots : FireSchedule(t)
    \/ \E t \in TaskSlots, u \in Users, id \in WindowIds, m \in SnoozeChoices,
          ans \in Answers : Snooze(t, u, id, m, ans)
    \/ \E t \in TaskSlots, ok \in BOOLEAN : SnoozeEdit(t, ok)
    \/ \E t \in TaskSlots : SnoozeSchedule(t)
    \/ \E t \in TaskSlots, u \in Users, id \in WindowIds, ans \in Answers :
            Cancel(t, u, id, ans)
    \/ \E t \in TaskSlots, ok \in BOOLEAN : CancelDelete(t, ok)
    \/ Crash
    \/ \E ans \in Answers : Ready(ans)
    \/ Tick

SpecWindow == InitWindow /\ [][NextWindow]_vars

----------------------------------------------------------------------------
(* parseReminderDateTime to the millisecond.  Above, a clock reading is    *)
(* counted in units of 30 minutes; here the same function is written on    *)
(* readings in milliseconds, counted from 00:00 UTC of the day DownDay, so *)
(* that minutes, seconds and milliseconds can be told apart.               *)

SecondMs == 10 * 100
MinuteMs == 60 * SecondMs
HourMs == 60 * MinuteMs
UnitMs == 30 * MinuteMs
DayMs == 24 * HourMs

HourOf(dt) == (dt.wall % DayMs) \div HourMs
MinuteOf(dt) == (dt.wall % HourMs) \div MinuteMs
SecondOf(dt) == (dt.wall % MinuteMs) \div SecondMs
MillisecondOf(dt) == dt.wall % SecondMs
DateOf(dt) == dt.wall \div DayMs

(* DateTime.fromJSDate(date): the instant read in the host's zone. *)
FromJSDateMs(t) == [wall |-> t + hostOffset * UnitMs, off |-> hostOffset * UnitMs]

(* DateTime.now().setZone('Asia/Kolkata'), sub milliseconds after now. *)
BaseISTMs(t, sub) ==
    [wall |-> (t - DownDay * DayUnits) * UnitMs + sub + ISTOffset * UnitMs,
     off |-> ISTOffset * UnitMs]

(* Variant: the instant is always converted. *)
SetZoneISTMsConverts(dt, keepLocalTime) ==
    [wall |-> Instant(dt) + ISTOffset * UnitMs, off |-> ISTOffset * UnitMs]

SetZoneISTMs(dt, keepLocalTime) ==
    IF keepLocalTime
    THEN [wall |-> dt.wall, off |-> ISTOffset * UnitMs]
    ELSE [wall |-> Instant(dt) + ISTOffset * UnitMs, off |-> ISTOffset * UnitMs]

(* dt.set({ hour, minute, second, millisecond }) *)
SetClock(dt, hour, minute, second, millisecond) ==
    [wall |-> DateOf(dt) * DayMs + hour * HourMs + minute * MinuteMs
                  + second * SecondMs + millisecond,
     off |-> dt.off]

(* Variant: the seconds are kept when the minute is set to zero. *)
SetMinuteZeroKeepsSecond(dt) ==
    SetClock(dt, HourOf(dt), 0, SecondOf(dt), MillisecondOf(dt))

(* dt.set({ minute: 0, second: 0, millisecond: 0 }) *)
SetMinuteZero(dt) == SetClock(dt, HourOf(dt), 0, 0, 0)

(* dt.set({ second: 0, millisecond: 0 }) *)
SetSecondZero(dt) == SetClock(dt, HourOf(dt), MinuteOf(dt), 0, 0)

parseReminderDateTimeMs(chronoResult, baseIST) ==
    IF chronoResult = <<>>
    THEN <<>>
    ELSE LET start == chronoResult[1]
             keepLocalTime == ~start.tzCertain
             dt == SetZoneISTMs(FromJSDateMs(start.date), keepLocalTime)
         IN  IF ~start.hourCertain
             THEN <<SetClock(dt, HourOf(baseIST), MinuteOf(baseIST),
                             SecondOf(baseIST), MillisecondOf(baseIST))>>
             ELSE IF ~start.minuteCertain
                  THEN <<SetMinuteZero(dt)>>
                  ELSE IF ~start.secondCertain
                       THEN <<SetSecondZero(dt)>>
                       ELSE <<dt>>

(* What chrono-node can answer: nothing, or a Date on the day of the       *)
(* reference or the next, at one of a few times of day, with any           *)
(* combination of certainty flags.                                         *)
ParseDates ==
    {d * DayMs + h * HourMs + m * MinuteMs + sec * SecondMs + ms :
        d \in 0..ParseDays, h \in {0, 10, 18, 23}, m \in {0, 29, 45},
        sec \in {0, 7}, ms \in {0, 250}}

ParseResults ==
    {<<>>} \cup
    { <<[date |-> d, tzCertain |-> tz, hourCertain |-> h, minuteCertain |-> m,
         secondCertain |-> sec]>> :
        d \in ParseDates, tz \in BOOLEAN, h \in BOOLEAN, m \in BOOLEAN,
        sec \in BOOLEAN }

(* How far into the current unit of 30 minutes the reference instant is. *)
ParseSubs == {0, MinuteMs + SecondMs + 1, UnitMs - 1}

(* /rme reads the clock and parses the phrase. *)
Parse(chronoResult, sub) ==
    /\ up /\ msClock < bound.msgs
    /\ msClock' = msClock + 1
    /\ reply' = [kind |-> "parse", user |-> "", id |-> 0,
                 start |-> chronoResult, base |-> BaseISTMs(now, sub),
                 result |-> parseReminderDateTimeMs(chronoResult,
                                                    BaseISTMs(now, sub))]
    /\ UNCHANGED <<now, hostOffset, up, restarts, store, nextMid, sameMs,
                   timers, scheduledJobs, tasks, pending, delivered, cancelled,
                   presses, bound>>

InitParse ==
    /\ hostOffset \in HostOffsets
    /\ now \in {DownDay * DayUnits + h : h \in {0, 37, 47}}
    /\ bound = [time |-> 0, msgs |-> 1, ops |-> 0, restarts |-> 0]
    /\ up = TRUE
    /\ restarts = 0
    /\ store = <<>>
    /\ nextMid = 1
    /\ msClock = 0
    /\ sameMs = FALSE
    /\ timers = {}
    /\ scheduledJobs = <<>>
    /\ tasks = [t \in TaskSlots |-> Idle]
    /\ pending = {}
    /\ delivered = <<>>
    /\ cancelled = {}
    /\ presses = 0
    /\ reply = NoReply

NextParse == \E c \in ParseResults, sub \in ParseSubs : Parse(c, sub)

SpecParse == InitParse /\ [][NextParse]_vars

----------------------------------------------------------------------------
(* Properties. *)

TimersOf(id) == {j \in timers : j.reminder.id = id}

RecordsOf(st, id) == {i \in 1..Len(st) : st[i].data.id = id}

Quiet == pending = {} /\ \A t \in TaskSlots : tasks[t] = Idle

(* C1: at every moment there is at most one live timer per reminder id,    *)
(* and every live timer is the job the registry map holds under its id.    *)
C1_OneLiveTimerPerId ==
    /\ \A j \in timers :
          /\ j.reminder.id \in DOMAIN scheduledJobs
          /\ scheduledJobs[j.reminder.id] = j.jid
    /\ \A j, k \in timers : j.reminder.id = k.reminder.id => j = k

(* A snooze has just replaced the job of a reminder: its live timer is the *)
(* snoozed one, not the one installed at creation.                         *)
C1_Witness ==
    /\ reply.kind = "snooze" /\ reply.result = "Snoozed"
    /\ \E j \in TimersOf(reply.id) : j.at > MaxTime + 1


Undelivered(data) == <<data.id, NewDate(data.remindAt)>> \notin DOMAIN delivered

(* C2: no reminder is silently dropped across a restart: when reconcile    *)
(* has read the store, every persisted record that was not cancelled and   *)
(* whose notification is not delivered keeps its message and has a live    *)
(* timer.                                                                  *)
C2_NoSilentDrop ==
    [][Ready("ok") =>
        \A i \in 1..Len(store) :
            (store[i].data.id \notin cancelled /\ Undelivered(store[i].data))
                => /\ \E j \in timers' : j.reminder.id = store[i].data.id
                   /\ \A p \in pending' :
                         ~(p.op = "delete" /\ p.mid = store[i].mid)]_vars

(* C3: no reminder double-fires: for each reminder id and each fire time,  *)
(* at most one notification is delivered.                                  *)
C3_NoDoubleFire == \A e \in DOMAIN delivered : delivered[e] <= 1

(* A reminder has been notified for two of its fire times, once each. *)
C3_Witness ==
    \E e, f \in DOMAIN delivered :
        e[1] = f[1] /\ e[2] < f[2] /\ delivered[e] = 1 /\ delivered[f] = 1

(* C4: a cancel by the owner of a record, started while nothing else is   *)
(* in flight, leaves no timer and no registry entry for the id; when its   *)
(* delete completes with nothing else in flight and no timer installed in  *)
(* between, no record with the id is left in the store.                    *)
C4_CancelRemoves ==
    [][\A t \in TaskSlots :
        /\ \A u \in Users, id \in KnownIds :
              (Quiet /\ Cancel(t, u, id, "ok") /\ tasks'[t].kind = "cancel")
                  => \A j \in timers' : j.reminder.id # id
        /\ ( /\ CancelDelete(t, TRUE)
             /\ reply'.result = "Cancelled"
             /\ pending = {}
             /\ \A s \in TaskSlots \ {t} : tasks[s] = Idle
             /\ TimersOf(tasks[t].id) = {} )
              => RecordsOf(store', tasks[t].id) = {}]_vars

(* C5: whenever no operation is in flight, a live timer for an id implies  *)
(* a persisted record with that id.                                        *)
C5_NoOrphanTimer ==
    Quiet => \A j \in timers : RecordsOf(store, j.reminder.id) # {}

NotOwner(u, id) ==
    /\ RecordsOf(store, id) # {}
    /\ \A i \in RecordsOf(store, id) : store[i].data.userId # u

(* C6: a snooze by the owner writes a record whose fire time is the        *)
(* instant of the press plus the chosen duration, with triggered = false.  *)
C6_SnoozeFireAt ==
    [][\A t \in TaskSlots, u \in Users, id \in KnownIds, m \in SnoozeMinutes :
        (Snooze(t, u, id, m, "ok") /\ tasks'[t].kind = "snooze")
            => /\ NewDate(tasks'[t].rem[1].remindAt) = now + SnoozeUnits(m)
               /\ tasks'[t].rem[1].triggered = FALSE]_vars

(* C7: a snooze or a cancel by a user who owns no record with the id is    *)
(* answered NotFound when the store can be read, and in every case leaves  *)
(* the store, the timers and the registry as they were and starts nothing. *)
C7_NonOwnerNotFound ==
    [][\A t \in TaskSlots, u \in Users, id \in KnownIds, ans \in Answers :
        (NotOwner(u, id) /\
         (Cancel(t, u, id, ans) \/ \E m \in SnoozeMinutes : Snooze(t, u, id, m, ans)))
            => /\ ans = "ok" => reply'.result = "NotFound"
               /\ reply'.result # ""
               /\ UNCHANGED <<store, timers, scheduledJobs, tasks>>]_vars

(* A user who does not own the record was answered NotFound while the      *)
(* record and its timer are in place.                                      *)
C7_Witness ==
    /\ reply.kind \in {"snooze", "cancel"} /\ reply.result = "NotFound"
    /\ NotOwner(reply.user, reply.id)
    /\ TimersOf(reply.id) # {}

(* C8: a cancel of an id that has no record in the store is answered       *)
(* NotFound whenever the store can be read, is always answered, and leaves *)
(* the store, the timers and the registry as they were.                    *)
C8_CancelDeletedId ==
    [][\A t \in TaskSlots, u \in Users, id \in KnownIds, ans \in Answers :
        (RecordsOf(store, id) = {} /\ Cancel(t, u, id, ans))
            => /\ ans = "ok" => reply'.result = "NotFound"
               /\ reply'.kind = "cancel" /\ reply'.result # ""
               /\ UNCHANGED <<store, timers, scheduledJobs, tasks>>]_vars

(* A cancel of a deleted id was answered NotFound while another reminder's *)
(* record and timer are in place.                                          *)
C8_Witness ==
    /\ reply.kind = "cancel" /\ reply.result = "NotFound"
    /\ RecordsOf(store, reply.id) = {}
    /\ store # <<>> /\ timers # {}

(* C9: when a create is acknowledged, the new record is in the store with  *)
(* triggered = false and exactly one live timer is set to its fire time.   *)
C9_CreateInstallsTimer ==
    (reply.kind = "rme" /\ reply.result = "Created")
        => \E i \in RecordsOf(store, reply.id) :
              /\ store[i].data.triggered = FALSE
              /\ \E j \in timers :
                    /\ TimersOf(reply.id) = {j}
                    /\ j.at = NewDate(store[i].data.remindAt)

(* C10: a create that fails leaves the store, the timers and the registry  *)
(* as they were.                                                           *)
C10_FailedCreateChangesNothing ==
    [][(reply'.kind = "rme" /\ reply'.result # "Created")
        => UNCHANGED <<store, timers, scheduledJobs>>]_vars

(* A create has failed on the insert while another reminder's record and   *)
(* timer are in place.                                                     *)
C10_Witness ==
    /\ reply.kind = "rme" /\ reply.result = "Error" /\ reply.id # 0
    /\ store # <<>> /\ timers # {}

(* C11: the ids of the records in the store are pairwise different. *)
C11_UniqueIds ==
    \A i, k \in 1..Len(store) : i # k => store[i].data.id # store[k].data.id

(* A record without recurrence whose fire time the clock of the model     *)
(* reaches is stored under the id.                                         *)
StoredOnce(id) ==
    \E i \in RecordsOf(store, id) :
        /\ store[i].data.recurrence = "none"
        /\ NewDate(store[i].data.remindAt) <= bound.time

Notified(id) ==
    /\ \E e \in DOMAIN delivered : e[1] = id
    /\ \A i \in RecordsOf(store, id) : store[i].data.triggered
    /\ TimersOf(id) = {}
    /\ id \notin DOMAIN scheduledJobs

(* C12: with the process up, the platform answering and no snooze or       *)
(* cancel, a stored reminder without recurrence is eventually notified,    *)
(* its record then has triggered = true and no timer is left for its id.   *)
C12_EventuallyNotified ==
    \A id \in 1..LiveMsgs : StoredOnce(id) ~> Notified(id)

RecordAt(st, mid) == {i \in 1..Len(st) : st[i].mid = mid}

(* C13: when the job callback of an hourly reminder runs on a record that  *)
(* nobody changed and the next occurrence is in the future, the record it  *)
(* writes is one hour later with triggered = false, the edit persists that *)
(* record, and rescheduling leaves exactly one live timer for the id, set  *)
(* to the persisted fire time.                                             *)
C13_AdvanceOneStep ==
    [][\A t \in TaskSlots :
        /\ ( /\ FireRefetch(t, "ok")
             /\ tasks'[t].pc = "edit"
             /\ \E i \in RecordAt(store, tasks'[t].mid) :
                   /\ store[i].data.recurrence = "hourly"
                   /\ store[i].data.remindAt = tasks[t].rem[1].remindAt
             /\ NewDate(tasks[t].rem[1].remindAt) + HourUnits > now )
              => /\ tasks'[t].resched
                 /\ NewDate(tasks'[t].rem[1].remindAt)
                        = NewDate(tasks[t].rem[1].remindAt) + HourUnits
                 /\ tasks'[t].rem[1].triggered = FALSE
        /\ (FireEdit(t, TRUE) /\ HasMsg(store, tasks[t].mid))
              => \A i \in RecordAt(store', tasks[t].mid) :
                    store'[i].data = tasks[t].rem[1]
        /\ ( /\ FireSchedule(t)
             /\ NewDate(tasks[t].rem[1].remindAt) > now
             /\ \E i \in RecordAt(store, tasks[t].mid) :
                   store[i].data = tasks[t].rem[1] )
              => \E j \in timers' :
                    /\ \A k \in timers' : k.reminder.id = tasks[t].id => k = j
                    /\ j.reminder.id = tasks[t].id
                    /\ j.at = NewDate(tasks[t].rem[1].remindAt)
                    /\ scheduledJobs'[tasks[t].id] = j.jid]_vars

(* An hourly reminder was notified at its fire time; its record is now one *)
(* hour later with triggered = false and its only timer is set to that.    *)
C13_Witness ==
    /\ Quiet
    /\ \E e \in DOMAIN delivered, j \in timers :
          /\ j.reminder.id = e[1] /\ j.at = e[2] + HourUnits
          /\ TimersOf(e[1]) = {j}
          /\ \E i \in RecordsOf(store, e[1]) :
                /\ NewDate(store[i].data.remindAt) = j.at
                /\ store[i].data.triggered = FALSE
                /\ store[i].data.recurrence = "hourly"

(* The store once the requests in ops have reached the storage channel. *)
RECURSIVE ApplyOps(_, _)
ApplyOps(st, ops) ==
    IF ops = {}
    THEN st
    ELSE LET p == CHOOSE x \in ops : TRUE
         IN  ApplyOps(IF HasMsg(st, p.mid)
                      THEN IF p.op = "edit"
                           THEN EditMsg(st, p.mid, p.data[1])
                           ELSE DeleteMsg(st, p.mid)
                      ELSE st,
                      ops \ {p})

(* The registry reg agrees with the store st at time t: the ids with a     *)
(* timer are the ids of the records, every record is due after t, and each *)
(* timer is set to the remindAt of the records of its id.                  *)
Reconciled(reg, st, t) ==
    /\ {j.reminder.id : j \in reg} = {st[i].data.id : i \in 1..Len(st)}
    /\ \A i \in 1..Len(st) : NewDate(st[i].data.remindAt) > t
    /\ \A j \in reg : \A i \in RecordsOf(st, j.reminder.id) :
          j.at = NewDate(st[i].data.remindAt)

(* C14: when the 'ready' handler has listed the store and its edits and    *)
(* deletes have reached the storage channel, whether they succeeded or     *)
(* not, with nothing else running, the timers and the remaining records    *)
(* agree: same ids, every record due after now, each timer at the stored   *)
(* remindAt.                                                               *)
C14_ReconcileAgrees ==
    [][Ready("ok") =>
         \A failed \in SUBSET pending' :
            Reconciled(timers', ApplyOps(store, pending' \ failed), now)]_vars

(* The same with every edit and delete succeeding. *)
C14_ReconcileAgreesNoFailure ==
    [][Ready("ok") => Reconciled(timers', ApplyOps(store, pending'), now)]_vars

OpsOn(ops, mid) == {p \in ops : p.mid = mid}

(* The registry as the forEach of the 'ready' handler leaves it after its  *)
(* i-th message.                                                           *)
RegAfter(msgs, i, t) ==
    Reconcile([reg |-> Reg, ops |-> {}], SubSeq(msgs, 1, i), t).reg

(* C15: for each record the 'ready' handler lists, exactly one of: the     *)
(* record is due later and no request touches it; it is due, recurring and *)
(* a later occurrence is found, and the one request is an edit to the      *)
(* advanced remindAt with triggered = false, and its pass leaves a job for *)
(* the id at that time; or it is due and not advanced, the one request     *)
(* deletes it and its pass leaves the registry as it was.                  *)
C15_ReconcilePerRecord ==
    [][Ready("ok") =>
        \A i \in 1..Len(Fetch(store)) :
            LET m == Fetch(store)[i]
                adv == Advance(m.data.remindAt, m.data.recurrence, now)
                reg == RegAfter(Fetch(store), i, now)
                alone == \A k \in 1..Len(Fetch(store)) :
                            k # i => Fetch(store)[k].data.id # m.data.id
            IN  IF NewDate(m.data.remindAt) > now
                THEN OpsOn(pending', m.mid) = {}
                ELSE IF m.data.recurrence # "none" /\ adv # <<>>
                THEN /\ OpsOn(pending', m.mid) =
                          {[op |-> "edit", mid |-> m.mid,
                            data |-> <<[m.data EXCEPT !.remindAt = ToISO(adv[1]),
                                                      !.triggered = FALSE]>>]}
                     /\ \E j \in reg.timers :
                          /\ j.reminder.id = m.data.id
                          /\ j.at = Instant(adv[1])
                          /\ reg.scheduledJobs[m.data.id] = j.jid
                          /\ alone => j \in timers'
                ELSE /\ OpsOn(pending', m.mid) =
                          {[op |-> "delete", mid |-> m.mid, data |-> <<>>]}
                     /\ reg = RegAfter(Fetch(store), i - 1, now)
                     /\ alone => \A j \in timers' : j.reminder.id # m.data.id]_vars

(* The length of one step of a recurrence whose steps all have one length. *)
StepOf(recurrenceType) ==
    CASE recurrenceType = "hourly" -> HourUnits
      [] recurrenceType = "daily" -> DayUnits
      [] recurrenceType = "weekly" -> 7 * DayUnits
      [] OTHER -> 0

(* The first of next(cur), next(next(cur)), ... that is after t, looking   *)
(* at k of them at most.                                                   *)
RECURSIVE FirstAfter(_, _, _, _)
FirstAfter(cur, recurrenceType, t, k) ==
    LET n == getNextRecurrenceDateTime(cur, recurrenceType)
    IN  IF k = 0 \/ n = <<>>
        THEN <<>>
        ELSE IF Instant(n[1]) > t
             THEN n
             ELSE FirstAfter(n[1], recurrenceType, t, k - 1)

(* C16: from a remindAt T that is not after now, the advancement gives the *)
(* first of next(T), next(next(T)), ... that is after now (for a daily     *)
(* record, T + 51 days when now is T + 50.5 days): after now, and with no  *)
(* occurrence skipped.  Reconcile persists that value and the job callback *)
(* computes the same one from the same record.                             *)
C16_AdvanceToFirstFuture ==
    [][Ready("ok") =>
        \A i \in 1..Len(Fetch(store)) :
            LET m == Fetch(store)[i]
                kind == m.data.recurrence
                T == NewDate(m.data.remindAt)
                adv == Advance(m.data.remindAt, kind, now)
                fire == PostFire(m.data, m.data, now)
                steps == ((now - T) \div StepOf(kind)) + 1
            IN  (kind # "none" /\ T <= now) =>
                  /\ (StepOf(kind) > 0 /\ steps < MaxIterations) =>
                        /\ adv # <<>>
                        /\ Instant(adv[1]) = T + steps * StepOf(kind)
                  /\ (StepOf(kind) = 0 /\ now - T <= 51 * DayUnits) =>
                        /\ adv # <<>>
                        /\ adv = FirstAfter(FromISO(m.data.remindAt), kind, now, 60)
                  /\ adv # <<>> =>
                        /\ Instant(adv[1]) > now
                        /\ \E p \in OpsOn(pending', m.mid) :
                              /\ p.op = "edit"
                              /\ p.data[1].remindAt = ToISO(adv[1])
                        /\ fire.resched
                        /\ fire.data.remindAt = ToISO(adv[1])
                  /\ adv = <<>> => ~fire.resched]_vars

(* Reconcile met a daily record 50.5 days after its remindAt and asked for *)
(* an edit to 51 days after it.                                            *)
C16_Witness ==
    /\ up
    /\ \E p \in pending : \E i \in RecordAt(store, p.mid) :
          /\ p.op = "edit"
          /\ store[i].data.recurrence = "daily"
          /\ 2 * (now - NewDate(store[i].data.remindAt)) = 101 * DayUnits
          /\ NewDate(p.data[1].remindAt)
                = NewDate(store[i].data.remindAt) + 51 * DayUnits

(* C17: whatever the day of the week of a stored remindAt, its next        *)
(* weekday occurrence exists, falls on Monday to Friday at the same time   *)
(* of day, is later, and has only Saturdays and Sundays between: one day   *)
(* later from Sunday to Thursday, three days later from Friday, two from   *)
(* Saturday.                                                               *)
C17_WeekdayNext ==
    \A i \in 1..Len(store) :
        LET cur == FromISO(store[i].data.remindAt)
            n == getNextRecurrenceDateTime(cur, "weekday")
        IN  /\ n # <<>>
            /\ Weekday(n[1]) <= 5
            /\ n[1].off = cur.off
            /\ n[1].wall = cur.wall + DayUnits *
                    (CASE Weekday(cur) = 5 -> 3 [] Weekday(cur) = 6 -> 2 [] OTHER -> 1)
            /\ \A d \in 1..GuardLimit :
                  cur.wall + d * DayUnits < n[1].wall
                      => Weekday(PlusUnits(cur, d * DayUnits)) > 5

(* Reconcile moved a weekday record that was due on a Friday to the Monday *)
(* after it.                                                               *)
C17_Witness ==
    /\ up
    /\ \E p \in pending : \E i \in RecordAt(store, p.mid) :
          /\ p.op = "edit"
          /\ store[i].data.recurrence = "weekday"
          /\ Weekday(FromISO(store[i].data.remindAt)) = 5
          /\ Weekday(FromISO(p.data[1].remindAt)) = 1
          /\ NewDate(p.data[1].remindAt)
                = NewDate(store[i].data.remindAt) + 3 * DayUnits

(* The /rme head on slot t took the record with fire time x. *)
CreateTook(t, x) ==
    /\ tasks'[t].kind = "rme" /\ tasks'[t].pc = "send"
    /\ NewDate(tasks'[t].rem[1].remindAt) = x

(* C18: with r the instant the parser returns and the reference the clock  *)
(* of the request: when r is not after the reference, /rme goes on with    *)
(* r + 24 hours if that is after the clock and answers TimeInPast if not;  *)
(* when r is after the reference it goes on with r.  The record posted to  *)
(* the storage channel carries that fire time.                             *)
C18_FutureRepair ==
    [][/\ \A t \in TaskSlots, u \in Creators, c \in CreateResults(now),
             title \in Titles, repeat \in Repeats, newMs \in BOOLEAN :
            (c # <<>> /\ Rme(t, u, c, title, repeat, "ok", newMs)) =>
                LET r == Instant(parseReminderDateTime(c, NowIST(now))[1])
                IN  IF r > now
                    THEN CreateTook(t, r)
                    ELSE IF r + DayUnits > now
                         THEN CreateTook(t, r + DayUnits)
                         ELSE /\ reply' = Outcome("rme", u, 0, "TimeInPast")
                              /\ tasks' = tasks
       /\ \A t \in TaskSlots :
            RmeSend(t, TRUE) => store'[Len(store')].data = tasks[t].rem[1]]_vars

(* A /rme whose phrase resolved to the reference instant itself was stored *)
(* and scheduled for exactly 24 hours later.                               *)
C18_Witness ==
    \E i \in 1..Len(store), j \in timers :
        /\ NewDate(store[i].data.remindAt) = now + DayUnits
        /\ j.reminder.id = store[i].data.id
        /\ j.at = now + DayUnits

(* C19: when the notification of a due reminder cannot be delivered (the   *)
(* channel is not found or the send throws), the job callback does not end *)
(* before the record of the reminder is marked triggered = true or moved   *)
(* to a later occurrence.                                                  *)
C19_FailedDeliveryStillMarks ==
    [][\A t \in TaskSlots, ans \in Answers \ {"ok"} :
        (FireSend(t, ans) /\ tasks'[t] = Idle) =>
            \A i \in RecordsOf(store', tasks[t].id) :
                \/ store'[i].data.triggered
                \/ NewDate(store'[i].data.remindAt)
                      > NewDate(tasks[t].rem[1].remindAt)]_vars

(* Nothing can run the callback of id: no job is set and none is running. *)
NoFireFor(id) ==
    /\ TimersOf(id) = {}
    /\ \A t \in TaskSlots : ~(tasks[t].kind = "fire" /\ tasks[t].id = id)

(* C20: when the re-fetch of the job callback fails, the callback ends     *)
(* with the store, and so the record's remindAt and triggered, untouched   *)
(* and installs no job; and a reminder that was notified and has no job    *)
(* set or running gets one again only from the 'ready' handler or from a   *)
(* snooze of that reminder.                                                *)
C20_RefetchFailureAborts ==
    [][/\ \A t \in TaskSlots, ans \in Answers \ {"ok"} :
            FireRefetch(t, ans) =>
                /\ store' = store
                /\ tasks'[t] = Idle
                /\ timers' = timers /\ scheduledJobs' = scheduledJobs
                /\ TimersOf(tasks[t].id) = {} => NoFireFor(tasks[t].id)'
       /\ \A e \in DOMAIN delivered :
            (NoFireFor(e[1]) /\ ~NoFireFor(e[1])') =>
                \/ Ready("ok")
                \/ \E t \in TaskSlots :
                      SnoozeSchedule(t) /\ tasks[t].id = e[1]]_vars

(* A reminder was notified, its callback has ended, and the record is as   *)
(* it was stored before the notification, with no job for it.              *)
C20_Witness ==
    /\ up /\ restarts = 0 /\ presses = 0 /\ Quiet
    /\ \E e \in DOMAIN delivered : \E i \in RecordsOf(store, e[1]) :
          /\ NewDate(store[i].data.remindAt) = e[2]
          /\ ~store[i].data.triggered
          /\ NoFireFor(e[1])
          /\ e[1] \notin DOMAIN scheduledJobs

(* The records the program holds: stored ones and those its handlers carry. *)
HeldRecords ==
    {store[i].data : i \in 1..Len(store)} \cup
    {tasks[t].rem[1] : t \in {u \in TaskSlots : tasks[u].rem # <<>>}}

(* The registry after scheduleReminder has been called twice with r. *)
ScheduledTwice(r) ==
    scheduleReminder(scheduleReminder(Reg, r, now), r, now)

JobsOf(S, id) == {j \in S.timers : j.reminder.id = id}

(* C21 as stated: for every record, two calls of scheduleReminder in a row *)
(* leave exactly one job for its id.                                       *)
C21_ScheduleTwiceAnyRecord ==
    \A r \in HeldRecords : Cardinality(JobsOf(ScheduledTwice(r), r.id)) = 1

(* C21: for a record whose remindAt is after now, two calls of             *)
(* scheduleReminder in a row leave exactly one job for its id, set to its  *)
(* remindAt and entered in the map; for a record whose remindAt is not     *)
(* after now both calls leave the registry as it was.                      *)
C21_ScheduleTwice ==
    \A r \in HeldRecords :
        IF NewDate(r.remindAt) > now
        THEN \E j \in ScheduledTwice(r).timers :
                /\ JobsOf(ScheduledTwice(r), r.id) = {j}
                /\ j.at = NewDate(r.remindAt)
                /\ j.reminder = r
                /\ ScheduledTwice(r).scheduledJobs[r.id] = j.jid
        ELSE ScheduledTwice(r) = Reg

(* A snooze has called scheduleReminder for a reminder whose create had    *)
(* called it before: one job, set to the stored remindAt.                  *)
C21_Witness ==
    /\ Quiet /\ presses >= 1 /\ cancelled = {}
    /\ \E i \in 1..Len(store), j \in timers :
          /\ TimersOf(store[i].data.id) = {j}
          /\ j.reminder = store[i].data
          /\ j.at = NewDate(store[i].data.remindAt)
          /\ j.at = now + DayUnits
          /\ \A e \in DOMAIN delivered : e[1] # store[i].data.id

(* 10:00 in Asia/Kolkata on the day after the Asia/Kolkata date of t. *)
NextDayAt10IST(t) ==
    (((t + ISTOffset) \div DayUnits) + 1) * DayUnits + 10 * HourUnits - ISTOffset

(* C22: /rme with "tomorrow at 10am" goes on with, and posts to the        *)
(* storage channel, a record whose remindAt is 10:00 Asia/Kolkata on the   *)
(* day after the Asia/Kolkata date of now, whatever the time of day and    *)
(* the host's zone.                                                        *)
C22_TomorrowAt10am ==
    [][\A t \in TaskSlots, u \in Creators, title \in Titles,
         repeat \in Repeats, newMs \in BOOLEAN :
            Rme(t, u, ChronoTomorrowAt10am(now), title, repeat, "ok", newMs)
                => CreateTook(t, NextDayAt10IST(now))]_vars

(* Some handler is at work on the reminder id, or one of reconcile's       *)
(* requests for the message mid is still on its way.                       *)
InProgress(id, mid) ==
    \/ \E t \in TaskSlots : tasks[t].kind # "idle" /\ tasks[t].id = id
    \/ \E p \in pending : p.mid = mid

(* C23: while the process is up, a stored record whose remindAt is before  *)
(* now either has triggered = true and no recurrence, or a handler or a    *)
(* reconcile request is at work on it.                                     *)
C23_PastIsTerminalOrInProgress ==
    up => \A i \in 1..Len(store) :
            NewDate(store[i].data.remindAt) < now =>
                \/ store[i].data.triggered /\ store[i].data.recurrence = "none"
                \/ InProgress(store[i].data.id, store[i].mid)

(* A step in which a call made for the reminder id fails: in its job      *)
(* callback, in a snooze or a cancel of it, or in reconcile's request for  *)
(* its message.                                                            *)
FailedStep(id) ==
    \/ \E t \in TaskSlots, ans \in Answers \ {"ok"} :
          /\ tasks[t].id = id
          /\ FireSend(t, ans) \/ FireRefetch(t, ans)
    \/ \E t \in TaskSlots :
          /\ tasks[t].id = id
          /\ FireEdit(t, FALSE) \/ SnoozeEdit(t, FALSE) \/ CancelDelete(t, FALSE)
    \/ \E t \in TaskSlots, u \in Users, ans \in Answers \ {"ok"} :
          \/ Cancel(t, u, id, ans)
          \/ \E m \in SnoozeChoices : Snooze(t, u, id, m, ans)
    \/ \E p \in pending :
          /\ ReconcileWrite(p, FALSE)
          /\ \E i \in RecordAt(store, p.mid) : store[i].data.id = id

DataOf(st, id) == {st[i] : i \in RecordsOf(st, id)}

AllIds == StoreIds(store) \cup {j.reminder.id : j \in timers}

C25_AdvanceFromStored ==
    [][\A t \in TaskSlots :
        (FireRefetch(t, "ok") /\ tasks'[t].pc = "edit" /\ tasks'[t].resched) =>
            \A i \in RecordAt(store, tasks'[t].mid) :
                LET stored == NewDate(store[i].data.remindAt)
                    new == NewDate(tasks'[t].rem[1].remindAt)
                    step == StepOf(store[i].data.recurrence)
                IN  step > 0 => /\ new > stored
                                /\ (new - stored) % step = 0]_vars


(* C26: the advancement applies next 400 times at most.  For a recurrence  *)
(* with steps of one length, when the first occurrence after now is the    *)
(* k-th with k <= 400, the 400th included, reconcile asks for an edit to   *)
(* it and the job callback reschedules to it; only when k > 400 is the     *)
(* record deleted by reconcile and marked triggered by the callback.       *)
C26_CapAtFourHundred ==
    [][Ready("ok") =>
        \A i \in 1..Len(Fetch(store)) :
            LET m == Fetch(store)[i]
                kind == m.data.recurrence
                T == NewDate(m.data.remindAt)
                fire == PostFire(m.data, m.data, now)
                k == ((now - T) \div StepOf(kind)) + 1
                loop == AdvanceLoop(FromISO(m.data.remindAt), kind, NowIST(now), 0)
            IN  (StepOf(kind) > 0 /\ T <= now) =>
                  /\ loop.iterations <= MaxIterations
                  /\ k <= MaxIterations =>
                        /\ \E p \in OpsOn(pending', m.mid) :
                              /\ p.op = "edit"
                              /\ NewDate(p.data[1].remindAt) = T + k * StepOf(kind)
                        /\ fire.resched
                        /\ NewDate(fire.data.remindAt) = T + k * StepOf(kind)
                  /\ k > MaxIterations =>
                        /\ OpsOn(pending', m.mid) =
                              {[op |-> "delete", mid |-> m.mid, data |-> <<>>]}
                        /\ ~fire.resched
                        /\ fire.data.triggered]_vars


(* C27: when a snooze whose edit has been stored calls scheduleReminder,   *)
(* the jobs for the id are afterwards exactly one, created with the record *)
(* the snooze stored and set to its remindAt, and entered in the map:      *)
(* whatever job the id had before is gone, for every snooze duration and   *)
(* every host zone.                                                        *)
C27_SnoozeReplacesTimer ==
    [][\A t \in TaskSlots :
        SnoozeSchedule(t) =>
            \E j \in timers' :
                /\ {x \in timers' : x.reminder.id = tasks[t].id} = {j}
                /\ j.reminder = tasks[t].rem[1]
                /\ j.at = NewDate(tasks[t].rem[1].remindAt)
                /\ scheduledJobs'[tasks[t].id] = j.jid]_vars


(* C28: the instant a snooze acknowledges is the instant of the remindAt   *)
(* it stores, and the job its scheduleReminder creates is set to that      *)
(* stored remindAt.                                                        *)
C28_AckIsPersisted ==
    [][/\ \A t \in TaskSlots, u \in Users, id \in KnownIds, m \in SnoozeMinutes :
            (Snooze(t, u, id, m, "ok") /\ tasks'[t].pc = "edit") =>
                snoozedUntilUnix(m, now) = NewDate(tasks'[t].rem[1].remindAt)
       /\ \A t \in TaskSlots :
            SnoozeSchedule(t) =>
                \A j \in timers' \ timers :
                    j.at = NewDate(tasks[t].rem[1].remindAt)]_vars


(* C29: the job callback's edit stores the record it built at its re-fetch *)
(* whatever the store holds by then, a snooze's edit included (the last    *)
(* writer wins); and when it then reschedules a record that is still due   *)
(* later, the id's only job afterwards is the one for that record, so a    *)
(* job a snooze created in between is gone.                                *)
C29_LastWriterWins ==
    [][\A t \in TaskSlots :
        /\ (FireEdit(t, TRUE) /\ HasMsg(store, tasks[t].mid)) =>
              \A i \in RecordAt(store', tasks[t].mid) :
                  store'[i].data = tasks[t].rem[1]
        /\ (FireSchedule(t) /\ NewDate(tasks[t].rem[1].remindAt) > now) =>
              \E j \in timers' :
                  /\ {x \in timers' : x.reminder.id = tasks[t].id} = {j}
                  /\ j.reminder = tasks[t].rem[1]
                  /\ j.at = NewDate(tasks[t].rem[1].remindAt)]_vars

(* On a host in IST a reminder is delivered when due and snoozed by a day  *)
(* at once: the snooze's job is live and set to the snoozed remindAt, yet  *)
(* the stored record has triggered = true and the old remindAt, which the  *)
(* callback read before the snooze's edit and wrote back after it.         *)
C29_Witness ==
    /\ hostOffset = ISTOffset /\ presses = 1 /\ Quiet
    /\ \E i \in 1..Len(store), j \in timers :
          /\ store[i].data.recurrence = "none"
          /\ store[i].data.triggered
          /\ NewDate(store[i].data.remindAt) = now
          /\ j.reminder.id = store[i].data.id
          /\ j.at = NewDate(j.reminder.remindAt)
          /\ j.at = now + DayUnits
          /\ \E e \in DOMAIN delivered : e[1] = store[i].data.id


(* C30: when the job callback's re-fetch succeeds but finds no record with *)
(* the reminder's id, the callback ends there: the store, the jobs, the    *)
(* map and the requests in flight are as they were, whatever the           *)
(* recurrence of the reminder the job was created with.                    *)
C30_MissingRecordStops ==
    [][\A t \in TaskSlots :
        (FireRefetch(t, "ok") /\
         fetchStoredReminderMessage(store, tasks[t].id, "") = <<>>) =>
            /\ tasks'[t] = Idle
            /\ store' = store
            /\ timers' = timers
            /\ scheduledJobs' = scheduledJobs
            /\ pending' = pending]_vars

(* The job of an hourly reminder has delivered and is about to re-fetch;   *)
(* meanwhile a cancel has deleted the record, and nothing else is running. *)
C30_Witness ==
    \E t \in TaskSlots :
        /\ up /\ tasks[t].kind = "fire" /\ tasks[t].pc = "refetch"
        /\ tasks[t].rem[1].recurrence = "hourly"
        /\ tasks[t].id \in cancelled
        /\ fetchStoredReminderMessage(store, tasks[t].id, "") = <<>>
        /\ \E e \in DOMAIN delivered : e[1] = tasks[t].id /\ delivered[e] > 0
        /\ \A u \in TaskSlots \ {t} : tasks[u] = Idle


(* The notifications sent so far for id. *)
SentFor(d, id) == {<<e, d[e]>> : e \in {x \in DOMAIN d : x[1] = id}}

(* C31: a run of the job callback goes through its steps in one order.  It *)
(* starts by taking the id's entry out of the map, with no job but the one *)
(* that is running leaving the scheduler; then the notification is sent,   *)
(* and only in that step; then the record is re-fetched; then the store is *)
(* written, in that step only, so once at most; then the job is            *)
(* rescheduled.  No step of any handler takes back a notification that was *)
(* sent.                                                                   *)
C31_FireOrder ==
    [][/\ \A e \in DOMAIN delivered :
            e \in DOMAIN delivered' /\ delivered'[e] >= delivered[e]
       /\ \A t \in TaskSlots :
            /\ (tasks[t].kind # "fire" /\ tasks'[t].kind = "fire") =>
                  /\ tasks'[t].pc = "send"
                  /\ tasks'[t].id \notin DOMAIN scheduledJobs'
                  /\ \E j \in timers :
                        /\ j.at <= now /\ <<j.reminder>> = tasks'[t].rem
                        /\ timers' = timers \ {j}
                  /\ store' = store /\ delivered' = delivered
            /\ (tasks[t].kind = "fire" /\ tasks'[t] # tasks[t]) =>
                  CASE tasks[t].pc = "send" ->
                         /\ store' = store
                         /\ \/ /\ tasks'[t].pc = "refetch"
                               /\ SentFor(delivered', tasks[t].id)
                                     # SentFor(delivered, tasks[t].id)
                            \/ tasks'[t] = Idle /\ delivered' = delivered
                    [] tasks[t].pc = "refetch" ->
                         /\ store' = store /\ delivered' = delivered
                         /\ tasks'[t] = Idle \/ tasks'[t].pc = "edit"
                    [] tasks[t].pc = "edit" ->
                         /\ delivered' = delivered
                         /\ tasks'[t] = Idle \/ tasks'[t].pc = "sched"
                    [] tasks[t].pc = "sched" ->
                         /\ store' = store /\ delivered' = delivered
                         /\ tasks'[t] = Idle
                    [] OTHER -> FALSE]_vars

(* A run of the callback has sent its notification, re-fetched, written    *)
(* the record it built, and is about to reschedule; meanwhile a button was *)
(* pressed for the reminder.                                               *)
C31_Witness ==
    \E t \in TaskSlots :
        /\ tasks[t].kind = "fire" /\ tasks[t].pc = "sched"
        /\ tasks[t].id \notin DOMAIN scheduledJobs
        /\ SentFor(delivered, tasks[t].id) # {}
        /\ presses >= 1
        /\ \E i \in RecordAt(store, tasks[t].mid) :
              store[i].data = tasks[t].rem[1]


(* The fields of a record that are fixed when it is created. *)
FrameOf(data) ==
    <<data.id, data.userId, data.channelId, data.title, data.recurrence>>

(* C32: whatever a step does to the storage channel, a message that is     *)
(* there before and after it holds the same id, userId, channelId, title   *)
(* and recurrence: the edits of snooze, of the job callback and of         *)
(* reconcile change remindAt and triggered only.                           *)
C32_FrameFieldsFixed ==
    [][\A i \in 1..Len(store), k \in 1..Len(store') :
            store[i].mid = store'[k].mid =>
                FrameOf(store'[k].data) = FrameOf(store[i].data)]_vars

(* Both records have been rewritten, one by a job callback that marked it  *)
(* triggered, the other by a snooze of one day.                            *)
C32_Witness ==
    /\ Quiet /\ Len(store) = 2
    /\ \E i, k \in 1..Len(store) :
          /\ i # k
          /\ store[i].data.triggered
          /\ NewDate(store[k].data.remindAt) >= DayUnits - ISTOffset


(* The records with this id are all older than the FetchLimit newest       *)
(* messages of the channel.                                                *)
Outside(st, id) ==
    /\ RecordsOf(st, id) # {}
    /\ \A i \in RecordsOf(st, id) : i <= Len(st) - FetchLimit

(* C33: while a record is older than the 100 newest messages, a snooze or  *)
(* a cancel of its id by its owner answers NotFound and changes nothing;   *)
(* its job's callback sends the notification, then finds no record and     *)
(* ends without a write or a job; reconcile creates no job for it and asks *)
(* for no edit or delete of it; and no step changes its message.           *)
C33_OutsideWindow ==
    [][/\ \A t \in TaskSlots, u \in Users, id \in WindowIds :
            (Outside(store, id) /\
             (Cancel(t, u, id, "ok") \/
              \E m \in SnoozeChoices : Snooze(t, u, id, m, "ok"))) =>
                /\ reply'.result = "NotFound"
                /\ UNCHANGED <<store, timers, scheduledJobs, tasks>>
       /\ \A t \in TaskSlots :
            (tasks[t].kind = "fire" /\ Outside(store, tasks[t].id)) =>
                /\ FireSend(t, "ok") =>
                      /\ SentFor(delivered', tasks[t].id)
                            # SentFor(delivered, tasks[t].id)
                      /\ tasks'[t].pc = "refetch"
                /\ FireRefetch(t, "ok") =>
                      /\ tasks'[t] = Idle
                      /\ UNCHANGED <<store, timers, scheduledJobs, pending>>
       /\ Ready("ok") =>
            \A i \in 1..(Len(store) - FetchLimit) :
                Outside(store, store[i].data.id) =>
                    /\ \A j \in timers' : j.reminder.id # store[i].data.id
                    /\ OpsOn(pending', store[i].mid) = {}
       /\ \A i \in 1..(Len(store) - FetchLimit) :
            Outside(store, store[i].data.id) =>
                \E k \in 1..i : store'[k] = store[i]]_vars

(* After a restart the oldest of 101 records has no job, although it is    *)
(* stored, not triggered and due later.                                    *)
C33_Witness ==
    /\ up /\ restarts = 1 /\ Quiet
    /\ Outside(store, 1)
    /\ \A j \in timers : j.reminder.id # 1
    /\ \E i \in RecordsOf(store, 1) :
          /\ ~store[i].data.triggered
          /\ NewDate(store[i].data.remindAt) > now
    /\ \E j \in timers : j.reminder.id = FetchLimit + 1


(* The reading parseReminderDateTime starts from: the Date of the grammar  *)
(* result, moved into Asia/Kolkata.                                        *)
Converted(start) == SetZoneISTMs(FromJSDateMs(start.date), ~start.tzCertain)

ClockOf(dt) == <<HourOf(dt), MinuteOf(dt), SecondOf(dt)>>

(* C34: for every combination of the certainty flags, the result of        *)
(* parseReminderDateTime has the hour, minute and second of the reference  *)
(* when the hour is not certain; the parsed hour with minute and second    *)
(* zero when the hour is certain and the minute is not; the parsed hour    *)
(* and minute with second zero when only the second is not certain; and    *)
(* the parsed time of day when all are certain.  Its date is the parsed    *)
(* date in each case.                                                      *)
C34_TimeDefaults ==
    (reply.kind = "parse" /\ reply.start # <<>>) =>
        LET start == reply.start[1]
            dt == Converted(start)
            r == reply.result[1]
        IN  /\ reply.result # <<>>
            /\ DateOf(r) = DateOf(dt)
            /\ r.off = dt.off
            /\ ~start.hourCertain => ClockOf(r) = ClockOf(reply.base)
            /\ (start.hourCertain /\ ~start.minuteCertain) =>
                  ClockOf(r) = <<HourOf(dt), 0, 0>>
            /\ (start.hourCertain /\ start.minuteCertain
                    /\ ~start.secondCertain) =>
                  ClockOf(r) = <<HourOf(dt), MinuteOf(dt), 0>>
            /\ (start.hourCertain /\ start.minuteCertain
                    /\ start.secondCertain) => r = dt

(* "At 6pm" style input parsed as 18:29:07 with only the hour certain,     *)
(* while the reference has seconds to spare: the result is 18:00:00 on the *)
(* parsed date.                                                            *)
C34_Witness ==
    /\ reply.kind = "parse" /\ reply.start # <<>>
    /\ reply.start[1].hourCertain /\ ~reply.start[1].minuteCertain
    /\ reply.start[1].secondCertain
    /\ ClockOf(Converted(reply.start[1])) = <<18, 29, 7>>
    /\ SecondOf(reply.base) # 0
    /\ ClockOf(reply.result[1]) = <<18, 0, 0>>
    /\ DateOf(reply.result[1]) = DateOf(Converted(reply.start[1]))


(* C35: when the grammar result names no offset, the value returned by     *)
(* parseReminderDateTime reads on the Asia/Kolkata clock what the grammar  *)
(* result reads on the host's clock, so its instant is the grammar's moved *)
(* by the host's offset less Asia/Kolkata's; when the result names an      *)
(* offset, the value returned is the same instant.  Stated on the value    *)
(* returned when hour, minute and second are certain, and on its date and  *)
(* hour whenever the hour is.                                              *)
C35_ZoneConversion ==
    (reply.kind = "parse" /\ reply.start # <<>>) =>
        LET start == reply.start[1]
            r == reply.result[1]
            want == IF start.tzCertain
                    THEN start.date + ISTOffset * UnitMs
                    ELSE start.date + hostOffset * UnitMs
        IN  /\ r.off = ISTOffset * UnitMs
            /\ r.wall \div DayMs = want \div DayMs
            /\ start.hourCertain => r.wall \div HourMs = want \div HourMs
            /\ (start.hourCertain /\ start.minuteCertain
                    /\ start.secondCertain) =>
                  /\ r.wall = want
                  /\ start.tzCertain => Instant(r) = start.date
                  /\ ~start.tzCertain =>
                        Instant(r) = start.date
                                        + (hostOffset - ISTOffset) * UnitMs

(* On a host in UTC a phrase without an offset was parsed as 18:29:07 UTC: *)
(* the value returned is 18:29:07 in Asia/Kolkata, five and a half hours   *)
(* earlier.                                                                *)
C35_Witness ==
    /\ reply.kind = "parse" /\ reply.start # <<>> /\ hostOffset = 0
    /\ ~reply.start[1].tzCertain
    /\ reply.start[1].hourCertain /\ reply.start[1].minuteCertain
    /\ reply.start[1].secondCertain
    /\ reply.start[1].date % DayMs = 18 * HourMs + 29 * MinuteMs + 7 * SecondMs
    /\ reply.result[1].wall = reply.start[1].date
    /\ Instant(reply.result[1]) = reply.start[1].date - ISTOffset * UnitMs


(* C36: while the process is up, every stored record with triggered =      *)
(* false and a remindAt after now, for whose id no handler is running and  *)
(* no reconcile request is pending, has a live job for its id, and every   *)
(* live job for its id is set to the record's remindAt.                    *)
C36_PendingHasTimer ==
    up =>
        \A i \in 1..Len(store) :
            LET data == store[i].data
            IN  (/\ ~data.triggered
                 /\ NewDate(data.remindAt) > now
                 /\ \A t \in TaskSlots : tasks[t].id # data.id
                 /\ OpsOn(pending, store[i].mid) = {}) =>
                    /\ TimersOf(data.id) # {}
                    /\ \A j \in TimersOf(data.id) :
                          j.at = NewDate(data.remindAt)


(* C37: a stored record has triggered = true only when a notification for  *)
(* its id has been sent; and the only step that turns triggered from false *)
(* to true in a message is the edit of a job callback that has sent its    *)
(* notification.                                                           *)
C37_TriggeredOnlyAfterDelivery ==
    [][/\ \A k \in 1..Len(store') :
            store'[k].data.triggered =>
                SentFor(delivered', store'[k].data.id) # {}
       /\ \A i \in 1..Len(store), k \in 1..Len(store') :
            (/\ store[i].mid = store'[k].mid
             /\ ~store[i].data.triggered
             /\ store'[k].data.triggered) =>
                \E t \in TaskSlots :
                    /\ FireEdit(t, TRUE)
                    /\ tasks[t].mid = store[i].mid
                    /\ SentFor(delivered, tasks[t].id) # {}]_vars

(* A reminder without recurrence was delivered and its record marked. *)
C37_Witness ==
    /\ Quiet
    /\ \E i \in 1..Len(store) :
          /\ store[i].data.triggered
          /\ store[i].data.recurrence = "none"
          /\ SentFor(delivered, store[i].data.id) # {}


(* C38: a cancel or a snooze whose store call fails changes no job: a      *)
(* snooze hands nothing to the scheduler before its edit, and a failed     *)
(* edit leaves the jobs and the map as they are; when a cancel's delete is *)
(* rejected, the record, still stored, untriggered and due later, with no  *)
(* restart before and no other handler on its id, still has a job.         *)
C38_StoreFailureKeepsJobs ==
    [][/\ \A t \in TaskSlots :
            (SnoozeEdit(t, FALSE) \/ (SnoozeEdit(t, TRUE) /\ store' = store)) =>
                /\ timers' = timers
                /\ scheduledJobs' = scheduledJobs
       /\ \A t \in TaskSlots :
            (/\ CancelDelete(t, FALSE)
             /\ restarts = 0
             /\ \A o \in TaskSlots \ {t} : tasks[o].id # tasks[t].id) =>
                \A i \in 1..Len(store') :
                    (/\ store'[i].mid = tasks[t].mid
                     /\ ~store'[i].data.triggered
                     /\ NewDate(store'[i].data.remindAt) > now) =>
                        \E j \in timers' : j.reminder.id = tasks[t].id]_vars


(* A record with a recurrence is stored under the id, due at f. *)
StoredRecurring(id, f) ==
    \E i \in RecordsOf(store, id) :
        /\ store[i].data.recurrence # "none"
        /\ NewDate(store[i].data.remindAt) = f

FiredAt(id, f) == <<id, f>> \in DOMAIN delivered

(* C39: with the process up, the platform answering and no snooze or       *)
(* cancel, a stored reminder with a recurrence keeps firing: its record    *)
(* never has triggered = true, every occurrence the clock reaches is       *)
(* eventually notified, and after each notification a job for a later      *)
(* occurrence is eventually live.                                          *)
C39_RecurringKeepsFiring ==
    /\ [](\A i \in 1..Len(store) :
            store[i].data.recurrence # "none" => ~store[i].data.triggered)
    /\ \A id \in 1..LiveMsgs, f \in 1..LiveTime :
          /\ StoredRecurring(id, f) ~> FiredAt(id, f)
          /\ (FiredAt(id, f) /\ \E g \in f..(f + HourUnits) : StoredRecurring(id, g))
                ~> (\E j \in TimersOf(id) : j.at > f)

============================================================================
